---- MODULE Spec2Model ----
(***************************************************************************)
(* A model of the bounded waitable FIFO of DarwinFfmpegArcana:             *)
(*   fifo/circular_fifo.hpp          the ring (LOCKLESS and BLOCKING mode) *)
(*   fifo/default_semaphore_impl.cpp the counting semaphore                *)
(*   fifo/bound_fifo_impl.hpp        the waitable FIFO composed of both    *)
(*                                                                         *)
(* Threads call the FIFO's public operations.  Every operation is one      *)
(* action; inside it the thread advances one atomic step at a time (one    *)
(* atomic load, store, fetch_add, semaphore call, or one mutex-protected   *)
(* critical section), so that the operations of different threads          *)
(* interleave exactly where the code lets them.                            *)
(***************************************************************************)
EXTENDS Integers, Sequences, FiniteSets, TLC

(***************************************************************************)
(* Bounds of the model.                                                    *)
(***************************************************************************)
\* largest maxPackets handed to the constructor (the user-visible capacity)
MaxPackets == 2
\* number of elements a producer may get accepted
MaxItems == 2
\* number of read calls the consumers may issue
MaxReads == 2
\* number of setFlowEnabled calls that change the flag
MaxToggles == 2

(***************************************************************************)
(* Program constants.                                                      *)
(***************************************************************************)
SPR_OK == 0
SPR_FLOWDISABLED == 13
SPR_FIFOFULL == 29
\* read() always returns 1
READ_RETURN == 1
\* media_fifo.h: the result the C API documents for an expired timed wait
FF_FIFO_TIMEOUT == -1
\* the value-initialised Element (Element{}): a null pointer
NoElement == 0
\* non-zero results of a failed TryWait: sem_trywait (-1) on the POSIX build,
\* semaphore_timedwait's KERN_OPERATION_TIMED_OUT (49) on the Darwin build
TryWaitFailed == {-1, 49}
\* non-zero results of an expired WaitTimed: KERN_OPERATION_TIMED_OUT (49) on the
\* Darwin build, errno ETIMEDOUT (110) on the POSIX build
WaitTimedExpired == {49, 110}

LOCKLESS == "Circular_Fifo_Mode_Single_Producer_Lockless"
BLOCKING == "Circular_Fifo_Mode_Blocking"

Threads == {"P1", "P2", "C1", "C2", "K", "T"}

VARIABLES
    \* circular_fifo
    mode,            \* _mode
    capacity,        \* _capacity
    array,           \* _array: slot -> element
    tail,            \* _tail (atomic, LOCKLESS)
    head,            \* _head (atomic, LOCKLESS)
    natail,          \* _natail (under _blockingMutex, BLOCKING)
    nahead,          \* _nahead (under _blockingMutex, BLOCKING)
    count,           \* _count (atomic)
    \* sproqet_generic_waitable_fifo
    readSemPresent,  \* whether _readSem was constructed
    writeSem,        \* count of _writeSem
    readSem,         \* count of _readSem
    flowEnabled,     \* _flowEnabled
    hasBeenRead,     \* _hasBeenRead
    \* the calling threads
    pc,              \* thread -> place in the operation it is running, or "idle"
    op,              \* thread -> the operation it is running or ran last
    ret,             \* thread -> the value its last operation returned
    loc,             \* thread -> the locals of the operation it is running
    \* the environment
    harness,         \* who may call what, and how often (fixed by Init)
    hist,            \* what has happened so far (observations only)
    \* the command pool
    pool,            \* FFCmdPool: free_list, total_count, free_count, max_size
    cmd,             \* cell -> FFCmd (its fields, _refcount), once allocated
    payload,         \* payload -> calls of its adapter's AddRef and Release
    usage            \* references the threads hold, calls made (observations only)

ringVars == <<mode, capacity, array, tail, head, natail, nahead, count>>
semVars == <<readSemPresent, writeSem, readSem>>
fifoVars == <<readSemPresent, writeSem, readSem, flowEnabled, hasBeenRead>>
threadVars == <<pc, op, ret, loc>>
poolVars == <<pool, cmd, payload, usage>>
vars == <<mode, capacity, array, tail, head, natail, nahead, count,
          readSemPresent, writeSem, readSem, flowEnabled, hasBeenRead,
          pc, op, ret, loc, harness, hist,
          pool, cmd, payload, usage>>

(***************************************************************************)
(* circular_fifo: helpers.                                                 *)
(***************************************************************************)
increment(idx) == (idx + 1) % capacity

decrementNoWrap(idx) == IF idx - 1 < 0 THEN 0 ELSE idx - 1
decrement(idx) == IF idx - 1 < 0 THEN capacity - 1 ELSE idx - 1

\* the indices the ring's operations use in the current mode
RingHead == IF mode = LOCKLESS THEN head ELSE nahead
RingTail == IF mode = LOCKLESS THEN tail ELSE natail

\* storedCount()
storedCount == count

\* the elements held between head and tail, head first
RECURSIVE SlotsFrom(_, _)
SlotsFrom(h, t) == IF h = t THEN <<>> ELSE <<array[h]>> \o SlotsFrom(increment(h), t)
RingContents == SlotsFrom(RingHead, RingTail)

\* the ring's state and the two semaphores: what a refused call must leave alone
ringState == <<array, tail, head, natail, nahead, count>>
semState == <<writeSem, readSem>>

(***************************************************************************)
(* The threads' locals and the return from an operation.                   *)
(***************************************************************************)
NoLocals == [item |-> NoElement, current |-> 0, next |-> 0, retv |-> 0]

Goto(t, label) == pc' = [pc EXCEPT ![t] = label]
Return(t, value) ==
    /\ pc' = [pc EXCEPT ![t] = "idle"]
    /\ ret' = [ret EXCEPT ![t] = value]
    /\ loc' = [loc EXCEPT ![t] = NoLocals]

(***************************************************************************)
(* The environment: which thread may call which operation.                 *)
(***************************************************************************)
WaitWriteOps == {"waitForWriteSpace", "tryWaitForWriteData", "waitForWriteSpaceTimed"}
WaitReadOps == {"waitForReadData", "tryWaitForReadData", "waitForReadDataTimed"}
ProducerOps == {"write", "preempt"} \cup WaitWriteOps
ConsumerOps == {"read"} \cup WaitReadOps
ControllerOps == {"setFlowEnabled"}

RoleOps(r) ==
    CASE r = "producer" -> ProducerOps
      [] r = "consumer" -> ConsumerOps
      [] r = "controller" -> ControllerOps
      [] r = "any" -> ProducerOps \cup ConsumerOps \cup ControllerOps
      [] OTHER -> {}

\* the thread's last call was a wait that acquired a permit it has not used yet
HoldsWritePermit(t) == pc[t] = "idle" /\ op[t] \in WaitWriteOps /\ ret[t] = SPR_OK
HoldsReadPermit(t) == pc[t] = "idle" /\ op[t] \in WaitReadOps /\ ret[t] = 0

\* the pairing rule: wait_for_write_space -> write, wait_for_read_data -> read
Paired(t, o) ==
    CASE harness.role[t] = "producer" ->
            IF HoldsWritePermit(t) THEN o \in {"write", "preempt"} ELSE o \in WaitWriteOps
      [] harness.role[t] = "consumer" ->
            IF HoldsReadPermit(t) THEN o = "read" ELSE o \in WaitReadOps
      [] OTHER -> TRUE

\* the cells calloc has provided, and whether thread t holds a reference to c
Allocated == 1..pool.total_count
Holds(t, c) == c \in Allocated /\ usage.held[t][c] > 0

\* the element producer t offers next: its own elements, numbered in order;
\* on a command FIFO, the first of the commands it holds
ItemBase(t) == IF t = "P2" THEN MaxItems ELSE 0
Sending(t) ==
    CHOOSE c \in Allocated : Holds(t, c) /\ \A d \in Allocated : Holds(t, d) => c <= d
NextItem(t) ==
    IF "acquire" \in harness.ops THEN Sending(t) ELSE ItemBase(t) + hist.offered[t] + 1

CanCall(t, o) ==
    /\ pc[t] = "idle"
    /\ o \in harness.ops
    /\ o \in RoleOps(harness.role[t])
    /\ harness.paired => Paired(t, o)
    /\ o \in {"write", "preempt"} => hist.offered[t] < harness.items
    /\ o = "read" => hist.reads < harness.reads

\* set_flow_enabled(false) has returned, and the flag has been 0 since
SetFlowRunning == \E k \in Threads : op[k] = "setFlowEnabled" /\ pc[k] # "idle"
Closed == flowEnabled = 0 /\ ~SetFlowRunning /\ hist.toggles > 0

\* hist, with the call of t noted: the flag at the call, and whether the call
\* was made on a closed FIFO
Noted(t) == [hist EXCEPT !.calledAt[t] = IF Closed THEN hist.toggles ELSE 0,
                         !.flowAt[t] = flowEnabled]

Called(t, o) == op' = [op EXCEPT ![t] = o] /\ hist' = Noted(t)
Running(t, o) == op[t] = o /\ pc[t] # "idle"

(***************************************************************************)
(* default_semaphore_impl, as a counter.                                   *)
(***************************************************************************)
\* Post(): one more permit
PostNothing(sem) == sem
Post(sem) == sem + 1
\* Wait() can return only when a permit is there
CanWait(sem) == sem > 0
\* TryWait() / Wait() taking a permit
TakeNothing(sem) == sem
Take(sem) == sem - 1

(***************************************************************************)
(* circular_fifo: the watermark handlers and the head monitor.  hist       *)
(* counts the calls of _highWaterMarkHandler, of _lowWaterMarkHandler and  *)
(* of _headMonitor->fifo_new_head.                                         *)
(***************************************************************************)
\* the constructor: _highWaterMark = -1, _lowWaterMark = -1, handlers NULL
NoMarks == [high |-> -1, highHandler |-> FALSE, low |-> -1, lowHandler |-> FALSE]

highWaterMark == harness.marks.high
lowWaterMark == harness.marks.low
highWaterMarkHandler == harness.marks.highHandler
lowWaterMarkHandler == harness.marks.lowHandler
headMonitor == harness.headMonitor

\* push: f = _count.fetch_add(1); if(_highWaterMarkHandler && f == _highWaterMark + 1)
HighMarkReached(f) == highWaterMarkHandler /\ f = highWaterMark + 1

\* LOCKLESS pop: f = _count.fetch_sub(1); if(_lowWaterMarkHandler && f == _lowWaterMark - 1)
\* BLOCKING pop: newHead = _count.fetch_sub(1) - 1; if(... && newHead == _lowWaterMark - 1)
LowMarkReachedIn(m, f) ==
    /\ lowWaterMarkHandler
    /\ IF m = LOCKLESS THEN f = lowWaterMark - 1 ELSE f - 1 = lowWaterMark - 1
LowMarkReached(f) == LowMarkReachedIn(mode, f)

\* LOCKLESS push: if(f == 0) newHead = true
\* BLOCKING push: if(_natail == _nahead) newHead = true
NewHeadOnPushIn(m, f, natailIsNahead) ==
    headMonitor /\ IF m = LOCKLESS THEN f = 0 ELSE natailIsNahead
NewHeadOnPush(f) == NewHeadOnPushIn(mode, f, natail = nahead)

\* preempt: if(_headMonitor) fifo_new_head
NewHeadOnPreempt == headMonitor

\* LOCKLESS pop: if((f != 1) && _headMonitor); BLOCKING pop: if(newHead && _headMonitor)
NewHeadOnPopIn(m, f) == headMonitor /\ IF m = LOCKLESS THEN f # 1 ELSE f - 1 # 0
NewHeadOnPop(f) == NewHeadOnPopIn(mode, f)

\* h, with the calls of the handlers and of the head monitor counted
Notified(h, high, low, newHead) ==
    [h EXCEPT !.highCalls = @ + (IF high THEN 1 ELSE 0),
              !.lowCalls = @ + (IF low THEN 1 ELSE 0),
              !.newHeads = @ + (IF newHead THEN 1 ELSE 0)]

\* h, with what the LOCKLESS index store of thread t did to the element at the
\* head of the ring, kept for the head monitor's listener
HeadNoted(h, t, changed) ==
    IF headMonitor THEN [h EXCEPT !.headChanged[t] = changed] ELSE h

\* setWaterMarkHandler, called once before the FIFO is used
setWaterMarkHandler(t) ==
    /\ "setWaterMarkHandler" \in harness.ops
    /\ harness.role[t] \in {"controller", "any"}
    /\ \A u \in Threads : pc[u] = "idle" /\ op[u] = "none"
    /\ harness.marks = NoMarks
    /\ \E high, low \in -1..MaxPackets, highHandler, lowHandler \in BOOLEAN :
           harness' = [harness EXCEPT !.marks = [high |-> high, highHandler |-> highHandler,
                                                 low |-> low, lowHandler |-> lowHandler]]
    /\ UNCHANGED <<ringVars, fifoVars, pc, op, ret, loc, hist>>

(***************************************************************************)
(* sproqet_generic_waitable_fifo::write, with _pushPacket and              *)
(* circular_fifo::push.                                                    *)
(***************************************************************************)
\* the flow check at the top of write, preempt and the write-space waits
FlowGateMissing == TRUE
FlowGate == flowEnabled # 0

\* push's and preempt's test for a free slot
HasRoomAlways(next, other) == TRUE
HasRoom(next, other) == next # other

\* _signalRead, then the return of SPR_OK
SignalReadAndReturn(t) ==
    /\ readSem' = IF readSemPresent THEN Post(readSem) ELSE readSem
    /\ pc' = [pc EXCEPT ![t] = "idle"]
    /\ ret' = [ret EXCEPT ![t] = SPR_OK]
    /\ loc' = [loc EXCEPT ![t] = NoLocals]
    /\ hist' = [hist EXCEPT !.offered[t] = @ + 1]
    /\ UNCHANGED <<ringVars, readSemPresent, writeSem, flowEnabled, hasBeenRead, op, harness>>

WriteCall(t) ==
    /\ CanCall(t, "write")
    /\ Called(t, "write")
    /\ IF FlowGate
         THEN /\ Goto(t, "push")
              /\ loc' = [loc EXCEPT ![t].item = NextItem(t)]
              /\ UNCHANGED ret
         ELSE Return(t, SPR_FLOWDISABLED)
    /\ UNCHANGED <<ringVars, fifoVars, harness>>

WriteStep(t) ==
    /\ Running(t, "write")
    /\ CASE pc[t] = "push" /\ mode = BLOCKING ->
              \* lock; test; construct; _natail = next_tail; fetch_add; unlock
              IF HasRoom(increment(natail), nahead)
                THEN /\ array' = [array EXCEPT ![natail] = loc[t].item]
                     /\ natail' = increment(natail)
                     /\ count' = count + 1
                     /\ hist' = Notified(hist, HighMarkReached(count), FALSE,
                                         NewHeadOnPush(count))
                     /\ Goto(t, "signalRead")
                     /\ UNCHANGED <<mode, capacity, tail, head, nahead, fifoVars, op, ret, loc,
                                    harness>>
                ELSE /\ Return(t, SPR_FIFOFULL)
                     /\ UNCHANGED <<ringVars, fifoVars, op, harness, hist>>
         [] pc[t] = "push" /\ mode = LOCKLESS ->
              \* current_tail = _tail.load; next_tail = increment(current_tail)
              /\ loc' = [loc EXCEPT ![t].current = tail, ![t].next = increment(tail)]
              /\ Goto(t, "push_head")
              /\ UNCHANGED <<ringVars, fifoVars, op, ret, harness, hist>>
         [] pc[t] = "push_head" ->
              \* head = _head.load; if(next_tail != head)
              IF HasRoom(loc[t].next, head)
                THEN /\ Goto(t, "push_store")
                     /\ UNCHANGED <<ringVars, fifoVars, op, ret, loc, harness, hist>>
                ELSE /\ Return(t, SPR_FIFOFULL)
                     /\ UNCHANGED <<ringVars, fifoVars, op, harness, hist>>
         [] pc[t] = "push_store" ->
              \* ::new (&_array[current_tail]) Element(item)
              /\ array' = [array EXCEPT ![loc[t].current] = loc[t].item]
              /\ Goto(t, "push_tail")
              /\ UNCHANGED <<mode, capacity, tail, head, natail, nahead, count, fifoVars, op, ret,
                             loc, harness, hist>>
         [] pc[t] = "push_tail" ->
              \* _tail.store(next_tail)
              /\ tail' = loc[t].next
              /\ hist' = HeadNoted(hist, t, head = tail)
              /\ Goto(t, "push_count")
              /\ UNCHANGED <<mode, capacity, array, head, natail, nahead, count, fifoVars, op, ret,
                             loc, harness>>
         [] pc[t] = "push_count" ->
              \* f = _count.fetch_add(1), the handler, the head monitor
              /\ count' = count + 1
              /\ hist' = Notified(hist, HighMarkReached(count), FALSE, NewHeadOnPush(count))
              /\ Goto(t, "signalRead")
              /\ UNCHANGED <<mode, capacity, array, tail, head, natail, nahead, fifoVars, op, ret,
                             loc, harness>>
         [] pc[t] = "signalRead" ->
              SignalReadAndReturn(t)

write(t) == WriteCall(t) \/ WriteStep(t)

(***************************************************************************)
(* sproqet_generic_waitable_fifo::read, with _popPacket and                *)
(* circular_fifo::pop.                                                     *)
(***************************************************************************)
\* the slot pop moves the element out of
PopSlotNext(current_head) == increment(current_head)
PopSlot(current_head) == current_head

\* read() hands item to its caller (NoElement when pop found the ring empty)
NoteDelivered(item) == hist' = [hist EXCEPT !.delivered = Append(@, item)]

ReadCall(t) ==
    /\ CanCall(t, "read")
    /\ op' = [op EXCEPT ![t] = "read"]
    /\ IF mode = BLOCKING
         THEN \* lock; test; take; _nahead = increment; fetch_sub; unlock
              IF nahead = natail
                THEN /\ Goto(t, "signalWrite")
                     /\ loc' = [loc EXCEPT ![t].item = NoElement]
                     /\ hist' = [Noted(t) EXCEPT !.reads = @ + 1,
                                                 !.delivered = Append(@, NoElement)]
                     /\ UNCHANGED <<nahead, count>>
                ELSE /\ loc' = [loc EXCEPT ![t].item = array[PopSlot(nahead)]]
                     /\ nahead' = increment(nahead)
                     /\ count' = count - 1
                     /\ Goto(t, "signalWrite")
                     /\ hist' = Notified([Noted(t) EXCEPT
                                              !.reads = @ + 1,
                                              !.delivered = Append(@, array[PopSlot(nahead)])],
                                         FALSE, LowMarkReached(count), NewHeadOnPop(count))
         ELSE \* current_head = _head.load
              /\ loc' = [loc EXCEPT ![t].current = head, ![t].item = NoElement]
              /\ Goto(t, "pop_tail")
              /\ hist' = [Noted(t) EXCEPT !.reads = @ + 1]
              /\ UNCHANGED <<nahead, count>>
    /\ UNCHANGED <<mode, capacity, array, tail, head, natail, fifoVars, ret, harness>>

ReadStep(t) ==
    /\ Running(t, "read")
    /\ CASE pc[t] = "pop_tail" ->
              \* if(current_head == _tail.load) return false
              /\ IF loc[t].current = tail
                   THEN Goto(t, "signalWrite") /\ NoteDelivered(NoElement)
                   ELSE Goto(t, "pop_take") /\ UNCHANGED hist
              /\ UNCHANGED <<ringVars, fifoVars, op, ret, loc, harness>>
         [] pc[t] = "pop_take" ->
              \* item = _array[current_head]; _array[current_head].~Element()
              /\ loc' = [loc EXCEPT ![t].item = array[PopSlot(loc[t].current)]]
              /\ NoteDelivered(array[PopSlot(loc[t].current)])
              /\ Goto(t, "pop_head")
              /\ UNCHANGED <<ringVars, fifoVars, op, ret, harness>>
         [] pc[t] = "pop_head" ->
              \* _head.store(increment(current_head))
              /\ head' = increment(loc[t].current)
              /\ hist' = HeadNoted(hist, t, increment(loc[t].current) # tail)
              /\ Goto(t, "pop_count")
              /\ UNCHANGED <<mode, capacity, array, tail, natail, nahead, count, fifoVars, op, ret,
                             loc, harness>>
         [] pc[t] = "pop_count" ->
              \* f = _count.fetch_sub(1), the handler, the head monitor
              /\ count' = count - 1
              /\ hist' = Notified(hist, FALSE, LowMarkReached(count), NewHeadOnPop(count))
              /\ Goto(t, "signalWrite")
              /\ UNCHANGED <<mode, capacity, array, tail, head, natail, nahead, fifoVars, op, ret,
                             loc, harness>>
         [] pc[t] = "signalWrite" ->
              \* _signalWrite(): _writeSem->Post()
              /\ writeSem' = Post(writeSem)
              /\ Goto(t, "read_done")
              /\ UNCHANGED <<ringVars, readSemPresent, readSem, flowEnabled, hasBeenRead,
                             op, ret, loc, harness, hist>>
         [] pc[t] = "read_done" ->
              \* element = ...; _hasBeenRead = true; return 1
              /\ hasBeenRead' = TRUE
              /\ Return(t, READ_RETURN)
              /\ UNCHANGED <<ringVars, semVars, flowEnabled, op, harness, hist>>

read(t) == ReadCall(t) \/ ReadStep(t)

(***************************************************************************)
(* sproqet_generic_waitable_fifo::preempt, with circular_fifo::preempt.    *)
(***************************************************************************)
PreemptCall(t) ==
    /\ CanCall(t, "preempt")
    /\ Called(t, "preempt")
    /\ IF FlowGate
         THEN /\ Goto(t, "preempt")
              /\ loc' = [loc EXCEPT ![t].item = NextItem(t)]
              /\ UNCHANGED ret
         ELSE Return(t, SPR_FLOWDISABLED)
    /\ UNCHANGED <<ringVars, fifoVars, harness>>

PreemptStep(t) ==
    /\ Running(t, "preempt")
    /\ CASE pc[t] = "preempt" /\ mode = BLOCKING ->
              \* lock; test; construct; _nahead = next_head; fetch_add; unlock
              IF HasRoom(decrement(nahead), natail)
                THEN /\ array' = [array EXCEPT ![decrement(nahead)] = loc[t].item]
                     /\ nahead' = decrement(nahead)
                     /\ count' = count + 1
                     /\ hist' = Notified(hist, FALSE, FALSE, NewHeadOnPreempt)
                     /\ Goto(t, "signalRead")
                     /\ UNCHANGED <<mode, capacity, tail, head, natail, fifoVars, op, ret, loc,
                                    harness>>
                ELSE /\ Return(t, SPR_FIFOFULL)
                     /\ UNCHANGED <<ringVars, fifoVars, op, harness, hist>>
         [] pc[t] = "preempt" /\ mode = LOCKLESS ->
              \* current_head = _head.load; next_head = decrement(current_head)
              /\ loc' = [loc EXCEPT ![t].current = head, ![t].next = decrement(head)]
              /\ Goto(t, "preempt_tail")
              /\ UNCHANGED <<ringVars, fifoVars, op, ret, harness, hist>>
         [] pc[t] = "preempt_tail" ->
              \* if(next_head != _tail.load)
              IF HasRoom(loc[t].next, tail)
                THEN /\ Goto(t, "preempt_store")
                     /\ UNCHANGED <<ringVars, fifoVars, op, ret, loc, harness, hist>>
                ELSE /\ Return(t, SPR_FIFOFULL)
                     /\ UNCHANGED <<ringVars, fifoVars, op, harness, hist>>
         [] pc[t] = "preempt_store" ->
              \* ::new (&_array[next_head]) Element(item)
              /\ array' = [array EXCEPT ![loc[t].next] = loc[t].item]
              /\ Goto(t, "preempt_head")
              /\ UNCHANGED <<mode, capacity, tail, head, natail, nahead, count, fifoVars, op, ret,
                             loc, harness, hist>>
         [] pc[t] = "preempt_head" ->
              \* _head.store(next_head)
              /\ head' = loc[t].next
              /\ hist' = HeadNoted(hist, t, TRUE)
              /\ Goto(t, "preempt_count")
              /\ UNCHANGED <<mode, capacity, array, tail, natail, nahead, count, fifoVars, op, ret,
                             loc, harness>>
         [] pc[t] = "preempt_count" ->
              \* _count.fetch_add(1), the head monitor
              /\ count' = count + 1
              /\ hist' = Notified(hist, FALSE, FALSE, NewHeadOnPreempt)
              /\ Goto(t, "signalRead")
              /\ UNCHANGED <<mode, capacity, array, tail, head, natail, nahead, fifoVars, op, ret,
                             loc, harness>>
         [] pc[t] = "signalRead" ->
              SignalReadAndReturn(t)

preempt(t) == PreemptCall(t) \/ PreemptStep(t)

(***************************************************************************)
(* waitForReadData, tryWaitForReadData.                                    *)
(***************************************************************************)
WaitForReadDataCall(t) ==
    /\ CanCall(t, "waitForReadData")
    /\ Called(t, "waitForReadData")
    /\ IF readSemPresent
         THEN Goto(t, "readSem_wait") /\ UNCHANGED <<ret, loc>>
         ELSE Return(t, SPR_FLOWDISABLED)
    /\ UNCHANGED <<ringVars, fifoVars, harness>>

\* what waitForReadData returns once _readSem->Wait() has returned 0
WaitForReadDataResult == 0

WaitForReadDataStep(t) ==
    /\ Running(t, "waitForReadData")
    /\ pc[t] = "readSem_wait"
    \* return _readSem->Wait()
    /\ CanWait(readSem)
    /\ readSem' = Take(readSem)
    /\ Return(t, WaitForReadDataResult)
    /\ UNCHANGED <<ringVars, readSemPresent, writeSem, flowEnabled, hasBeenRead, op,
                   harness, hist>>

waitForReadData(t) == WaitForReadDataCall(t) \/ WaitForReadDataStep(t)

tryWaitForReadData(t) ==
    /\ CanCall(t, "tryWaitForReadData")
    /\ Called(t, "tryWaitForReadData")
    /\ IF ~readSemPresent
         THEN Return(t, 0) /\ UNCHANGED readSem
         ELSE IF CanWait(readSem)
                THEN readSem' = Take(readSem) /\ Return(t, 0)
                ELSE /\ \E r \in TryWaitFailed : Return(t, r)
                     /\ UNCHANGED readSem
    /\ UNCHANGED <<ringVars, readSemPresent, writeSem, flowEnabled, hasBeenRead,
                   harness>>

\* waitForReadDataTimed(msecs): without a read semaphore return 0; with
\* msecs < 1, waitForReadData() and then return 0; else _readSem->WaitTimed,
\* which takes a permit or returns the platform's code at the deadline
waitForReadDataTimed(t) ==
    \/ /\ CanCall(t, "waitForReadDataTimed")
       /\ Called(t, "waitForReadDataTimed")
       /\ IF ~readSemPresent
            THEN Return(t, 0) /\ UNCHANGED readSem
            ELSE \E untimed \in BOOLEAN :
                   IF untimed
                     THEN Goto(t, "readSem_wait") /\ UNCHANGED <<ret, loc, readSem>>
                     ELSE IF CanWait(readSem)
                            THEN readSem' = Take(readSem) /\ Return(t, 0)
                            ELSE /\ \E r \in WaitTimedExpired : Return(t, r)
                                 /\ UNCHANGED readSem
       /\ UNCHANGED <<ringVars, readSemPresent, writeSem, flowEnabled, hasBeenRead,
                      harness>>
    \/ /\ Running(t, "waitForReadDataTimed")
       /\ pc[t] = "readSem_wait"
       /\ CanWait(readSem)
       /\ readSem' = Take(readSem)
       /\ Return(t, 0)
       /\ UNCHANGED <<ringVars, readSemPresent, writeSem, flowEnabled, hasBeenRead, op,
                      harness, hist>>

(***************************************************************************)
(* waitForWriteSpace, tryWaitForWriteData, waitForWriteSpaceTimed.         *)
(***************************************************************************)
\* the entry of the three write-space waits: the first flow check
WaitWriteCall(t, o, label) ==
    /\ CanCall(t, o)
    /\ Called(t, o)
    /\ IF FlowGate
         THEN Goto(t, label) /\ UNCHANGED <<ret, loc>>
         ELSE Return(t, SPR_FLOWDISABLED)
    /\ UNCHANGED <<ringVars, fifoVars, harness>>

\* waitForWriteSpace: the flow check after _writeSem->Wait()
WaitForWriteSpaceResult == IF flowEnabled = 1 THEN SPR_OK ELSE SPR_FLOWDISABLED

\* tryWaitForWriteData, waitForWriteSpaceTimed: the flow check after the wait
AfterWaitResult(retv) == IF flowEnabled = 0 THEN SPR_FLOWDISABLED ELSE retv

WaitForWriteSpaceStep(t) ==
    /\ pc[t] \in {"writeSem_wait", "flow_recheck"}
    /\ CASE pc[t] = "writeSem_wait" ->
              \* _writeSem->Wait()
              /\ CanWait(writeSem)
              /\ writeSem' = Take(writeSem)
              /\ Goto(t, "flow_recheck")
              /\ UNCHANGED <<ringVars, readSemPresent, readSem, flowEnabled, hasBeenRead,
                             op, ret, loc, harness, hist>>
         [] pc[t] = "flow_recheck" ->
              /\ Return(t, WaitForWriteSpaceResult)
              /\ UNCHANGED <<ringVars, fifoVars, op, harness, hist>>

waitForWriteSpace(t) ==
    \/ WaitWriteCall(t, "waitForWriteSpace", "writeSem_wait")
    \/ Running(t, "waitForWriteSpace") /\ WaitForWriteSpaceStep(t)

tryWaitForWriteData(t) ==
    \/ WaitWriteCall(t, "tryWaitForWriteData", "writeSem_try")
    \/ /\ Running(t, "tryWaitForWriteData")
       /\ CASE pc[t] = "writeSem_try" ->
                 \* retv = _writeSem->TryWait()
                 /\ IF CanWait(writeSem)
                      THEN /\ writeSem' = Take(writeSem)
                           /\ loc' = [loc EXCEPT ![t].retv = 0]
                      ELSE /\ \E r \in TryWaitFailed : loc' = [loc EXCEPT ![t].retv = r]
                           /\ UNCHANGED writeSem
                 /\ Goto(t, "flow_after")
                 /\ UNCHANGED <<ringVars, readSemPresent, readSem, flowEnabled,
                                hasBeenRead, op, ret, harness, hist>>
            [] pc[t] = "flow_after" ->
                 /\ Return(t, AfterWaitResult(loc[t].retv))
                 /\ UNCHANGED <<ringVars, fifoVars, op, harness, hist>>

\* msecs < 1: return waitForWriteSpace()
WaitForWriteSpaceTimedUntimed(t) ==
    \/ WaitWriteCall(t, "waitForWriteSpaceTimed", "writeSem_wait")
    \/ Running(t, "waitForWriteSpaceTimed") /\ WaitForWriteSpaceStep(t)

\* msecs >= 1
WaitForWriteSpaceTimedBounded(t) ==
    \/ WaitWriteCall(t, "waitForWriteSpaceTimed", "writeSem_timed")
    \/ /\ Running(t, "waitForWriteSpaceTimed")
       /\ pc[t] \in {"writeSem_timed", "flow_after"}
       /\ CASE pc[t] = "writeSem_timed" ->
                 \* retv = _writeSem->WaitTimed(msecs): a permit, or the deadline
                 /\ IF CanWait(writeSem)
                      THEN /\ writeSem' = Take(writeSem)
                           /\ loc' = [loc EXCEPT ![t].retv = 0]
                      ELSE /\ \E r \in WaitTimedExpired : loc' = [loc EXCEPT ![t].retv = r]
                           /\ UNCHANGED writeSem
                 /\ Goto(t, "flow_after")
                 /\ UNCHANGED <<ringVars, readSemPresent, readSem, flowEnabled,
                                hasBeenRead, op, ret, harness, hist>>
            [] pc[t] = "flow_after" ->
                 /\ Return(t, AfterWaitResult(loc[t].retv))
                 /\ UNCHANGED <<ringVars, fifoVars, op, harness, hist>>

waitForWriteSpaceTimed(t) ==
    WaitForWriteSpaceTimedUntimed(t) \/ WaitForWriteSpaceTimedBounded(t)

(***************************************************************************)
(* setFlowEnabled.                                                         *)
(***************************************************************************)
\* the ring states in which setFlowEnabled(false) posts a semaphore
UnstickWrite(pcount) == pcount = capacity - 1
UnstickRead(pcount) == pcount = 0 /\ readSemPresent

\* Reset(): while(!TryWait()) {} goes round while a permit is there
DrainsNever(sem) == FALSE
Drains(sem) == CanWait(sem)

\* if((flow == 0 && !enabled) || (flow == 1 && enabled)) return
AlreadySetNever(flow, enabled) == FALSE
AlreadySet(flow, enabled) == (flow = 0 /\ ~enabled) \/ (flow = 1 /\ enabled)

SetFlowEnabledCall(t, enabled) ==
    /\ CanCall(t, "setFlowEnabled")
    /\ op' = [op EXCEPT ![t] = "setFlowEnabled"]
    \* flow = _flowEnabled.load; return when nothing changes
    /\ IF AlreadySet(flowEnabled, enabled)
         THEN /\ Return(t, 0)
              /\ hist' = Noted(t)
         ELSE /\ hist.toggles < harness.toggles
              /\ Goto(t, IF enabled THEN "flow_store_1" ELSE "flow_store_0")
              /\ hist' = [Noted(t) EXCEPT !.toggles = @ + 1]
              /\ UNCHANGED <<ret, loc>>
    /\ UNCHANGED <<ringVars, fifoVars, harness>>

SetFlowEnabledStep(t) ==
    /\ Running(t, "setFlowEnabled")
    /\ CASE pc[t] = "flow_store_1" ->
              \* _flowEnabled.store(1)
              /\ flowEnabled' = 1
              /\ Return(t, 0)
              /\ UNCHANGED <<ringVars, semVars, hasBeenRead, op, harness, hist>>
         [] pc[t] = "flow_store_0" ->
              \* _flowEnabled.store(0)
              /\ flowEnabled' = 0
              /\ Goto(t, "flow_count")
              /\ UNCHANGED <<ringVars, semVars, hasBeenRead, op, ret, loc, harness, hist>>
         [] pc[t] = "flow_count" ->
              \* pcount = _elements->storedCount(); cap = _elements->capacity()
              /\ loc' = [loc EXCEPT ![t].current = storedCount]
              /\ Goto(t, "unstick_write")
              /\ UNCHANGED <<ringVars, fifoVars, op, ret, harness, hist>>
         [] pc[t] = "unstick_write" ->
              \* if(pcount == cap - 1) _writeSem->Post()
              /\ IF UnstickWrite(loc[t].current)
                   THEN writeSem' = Post(writeSem) /\ Goto(t, "writeSem_reset")
                   ELSE UNCHANGED writeSem /\ Goto(t, "unstick_read")
              /\ UNCHANGED <<ringVars, readSemPresent, readSem, flowEnabled, hasBeenRead,
                             op, ret, loc, harness, hist>>
         [] pc[t] = "writeSem_reset" ->
              \* _writeSem->Reset(): while(!TryWait()) {}
              /\ IF Drains(writeSem)
                   THEN writeSem' = Take(writeSem) /\ UNCHANGED pc
                   ELSE UNCHANGED writeSem /\ Goto(t, "unstick_read")
              /\ UNCHANGED <<ringVars, readSemPresent, readSem, flowEnabled, hasBeenRead,
                             op, ret, loc, harness, hist>>
         [] pc[t] = "unstick_read" ->
              \* if(pcount == 0 && _readSem) _readSem->Post()
              IF UnstickRead(loc[t].current)
                THEN /\ readSem' = Post(readSem)
                     /\ Goto(t, "readSem_reset")
                     /\ UNCHANGED <<ringVars, readSemPresent, writeSem, flowEnabled,
                                    hasBeenRead, op, ret, loc, harness, hist>>
                ELSE /\ Return(t, 0)
                     /\ UNCHANGED <<ringVars, fifoVars, op, harness, hist>>
         [] pc[t] = "readSem_reset" ->
              \* _readSem->Reset(): while(!TryWait()) {}
              IF Drains(readSem)
                THEN /\ readSem' = Take(readSem)
                     /\ UNCHANGED <<ringVars, readSemPresent, writeSem, flowEnabled,
                                    hasBeenRead, threadVars, harness, hist>>
                ELSE /\ Return(t, 0)
                     /\ UNCHANGED <<ringVars, fifoVars, op, harness, hist>>

setFlowEnabled(t) ==
    \/ \E enabled \in BOOLEAN : SetFlowEnabledCall(t, enabled)
    \/ SetFlowEnabledStep(t)

(***************************************************************************)
(* ff_cmd: the commands (FFCmd) and their pool (FFCmdPool).  A cell is     *)
(* named by the order in which calloc provided it; calloc provides         *)
(* MaxCells cells and returns null after that, and may return null         *)
(* earlier.  A payload is named by a number, 0 is the null pointer, and so *)
(* is a payload adapter (IFFRefCounted), whose AddRef and Release calls    *)
(* are counted per payload.                                                *)
(***************************************************************************)
MaxCells == 3
MaxPayloads == 2
MaxCalls == 3

FF_CMD_NONE == 0
FF_CMD_FRAME == 1
NoCmd == 0
NoData == 0
NoAdapter == 0
CountingAdapter == 1

Cells == 1..MaxCells
Payloads == 1..MaxPayloads
PoolOps == {"acquire", "add_ref", "release", "set_data", "clear_data", "init", "fill"}

\* calloc(1, sizeof(FFCmd)): every field zero
Calloc == [_refcount |-> 0, type |-> FF_CMD_NONE, data |-> NoData, data_ref |-> NoAdapter,
           pts |-> 0, dts |-> 0, flags |-> 0, stream_index |-> 0, user_data |-> 0]

\* the cells of the free list, from its head, following _next
PushedNothing(free_list, c) == free_list
PushedKeepsOrder(free_list, c) == Append(free_list, c)
Pushed(free_list, c) == <<c>> \o free_list

\* ff_cmd_pool_create: the pre-allocation loop ran `provided' times
PoolCreated(provided, max_size) ==
    /\ pool = [free_list |-> [i \in 1..provided |-> provided + 1 - i],
               total_count |-> provided, free_count |-> provided, max_size |-> max_size]
    /\ cmd = [c \in Cells |-> Calloc]
    /\ payload = [p \in Payloads |-> [AddRef |-> 0, Release |-> 0]]
    /\ usage = [held |-> [t \in Threads |-> [c \in Cells |-> 0]],
                owner |-> [c \in Cells |-> "none"],
                calls |-> 0,
                clones |-> {}]

\* no pool in use
NoPool == PoolCreated(0, 0)

ff_cmd_pool_total_count == pool.total_count
ff_cmd_pool_free_count == pool.free_count
ff_cmd_pool_in_use_count == pool.total_count - pool.free_count

\* what a thread may do with the commands: it works on a command it holds a
\* reference to, and only the owner of a command changes its fields
CanUse(t, o) ==
    /\ pc[t] = "idle"
    /\ o \in harness.ops
    /\ harness.role[t] # "none"
    /\ o \in {"add_ref", "set_data", "clear_data", "init", "fill"} =>
           usage.calls < harness.calls
Owns(t, c) == Holds(t, c) /\ usage.owner[c] = t
Used(t, o, value) ==
    /\ op' = [op EXCEPT ![t] = o]
    /\ ret' = [ret EXCEPT ![t] = value]
    /\ UNCHANGED <<ringVars, semVars, fifoVars, pc, loc, harness, hist>>

\* ff_cmd_pool_acquire, lines 207-220: the cell it takes, or NoCmd
FromFreeList == pool.free_list # <<>>
MayAllocateAlways == TRUE
MayAllocate == pool.max_size = 0 \/ pool.total_count < pool.max_size
Acquired(callocFails) ==
    IF FromFreeList THEN Head(pool.free_list)
    ELSE IF MayAllocate /\ ~callocFails THEN pool.total_count + 1
    ELSE NoCmd

\* ff_cmd_pool_acquire, lines 222-233
ResetKeepsCount(cell) == [Calloc EXCEPT !._refcount = cell._refcount]
Reset(cell) == [Calloc EXCEPT !._refcount = 1]

AcquireStep(t, callocFails) ==
    LET c == Acquired(callocFails) IN
    /\ CanUse(t, "acquire")
    /\ pool.total_count = MaxCells => callocFails
    /\ pool' = IF FromFreeList
               THEN [pool EXCEPT !.free_list = Tail(@), !.free_count = @ - 1]
               ELSE IF c # NoCmd THEN [pool EXCEPT !.total_count = @ + 1]
               ELSE pool
    /\ cmd' = IF c # NoCmd THEN [cmd EXCEPT ![c] = Reset(@)] ELSE cmd
    /\ usage' = IF c # NoCmd
                THEN [usage EXCEPT !.held[t][c] = @ + 1, !.owner[c] = t]
                ELSE usage
    /\ Used(t, "acquire", c)
    /\ UNCHANGED payload

ff_cmd_pool_acquire(t) == \E callocFails \in BOOLEAN : AcquireStep(t, callocFails)

\* cmd_addref: a holder of c takes one more reference, for thread u
cmd_addref(t) ==
    /\ CanUse(t, "add_ref")
    /\ \E c \in Cells : \E u \in Threads :
        /\ Holds(t, c)
        /\ harness.role[u] # "none"
        /\ cmd' = [cmd EXCEPT ![c]._refcount = @ + 1]
        /\ usage' = [usage EXCEPT !.held[u][c] = @ + 1, !.calls = @ + 1]
        /\ Used(t, "add_ref", cmd[c]._refcount + 1)
        /\ UNCHANGED <<pool, payload>>

\* ff_cmd_clear_data
ReleaseOnClearNever(cell) == FALSE
ReleaseOnClear(cell) == cell.data # NoData /\ cell.data_ref # NoAdapter
DataCleared(c) == [cmd EXCEPT ![c].data = NoData, ![c].data_ref = NoAdapter]
DataReleased(c) ==
    IF ReleaseOnClear(cmd[c])
    THEN [payload EXCEPT ![cmd[c].data].Release = @ + 1]
    ELSE payload

ff_cmd_clear_data(t) ==
    /\ CanUse(t, "clear_data")
    /\ \E c \in Cells :
        /\ Owns(t, c)
        /\ cmd' = DataCleared(c)
        /\ payload' = DataReleased(c)
        /\ usage' = [usage EXCEPT !.calls = @ + 1]
        /\ Used(t, "clear_data", 0)
        /\ UNCHANGED pool

\* ff_cmd_set_data(cmd, data, data_ref)
AddRefOnSetNever(data, data_ref) == FALSE
AddRefOnSet(data, data_ref) == data # NoData /\ data_ref # NoAdapter

SetData(t, c, data, data_ref) ==
    /\ CanUse(t, "set_data")
    /\ Owns(t, c)
    /\ cmd' = [cmd EXCEPT ![c].data = data, ![c].data_ref = data_ref]
    /\ payload' = IF AddRefOnSet(data, data_ref)
                  THEN [DataReleased(c) EXCEPT ![data].AddRef = @ + 1]
                  ELSE DataReleased(c)
    /\ usage' = [usage EXCEPT !.calls = @ + 1]
    /\ Used(t, "set_data", 0)
    /\ UNCHANGED pool

ff_cmd_set_data(t) ==
    \E c \in Cells : \E data \in {NoData} \cup Payloads :
    \E data_ref \in {NoAdapter, CountingAdapter} : SetData(t, c, data, data_ref)

\* ff_cmd_init(cmd, type)
InitCmd(t, c, type) ==
    /\ CanUse(t, "init")
    /\ Owns(t, c)
    /\ cmd' = [cmd EXCEPT ![c] = [Calloc EXCEPT !._refcount = cmd[c]._refcount,
                                                !.type = type]]
    /\ payload' = DataReleased(c)
    /\ usage' = [usage EXCEPT !.calls = @ + 1]
    /\ Used(t, "init", 0)
    /\ UNCHANGED pool

ff_cmd_init(t) ==
    \E c \in Cells : \E type \in {FF_CMD_NONE, FF_CMD_FRAME} : InitCmd(t, c, type)

\* the owner of a command writes the public fields of struct FFCmd
FillFields(t) ==
    /\ CanUse(t, "fill")
    /\ \E c \in Cells :
        /\ Owns(t, c)
        /\ cmd' = [cmd EXCEPT ![c].type = FF_CMD_FRAME, ![c].pts = 1, ![c].dts = 1,
                              ![c].flags = 1, ![c].stream_index = 1, ![c].user_data = 1]
        /\ usage' = [usage EXCEPT !.calls = @ + 1]
        /\ Used(t, "fill", 0)
        /\ UNCHANGED <<pool, payload>>

\* cmd_release, line 36: __sync_sub_and_fetch
CmdReleaseCall(t) ==
    /\ CanUse(t, "release")
    /\ \E c \in Cells :
        /\ Holds(t, c)
        /\ cmd' = [cmd EXCEPT ![c]._refcount = @ - 1]
        /\ usage' = [usage EXCEPT !.held[t][c] = @ - 1,
                                  !.owner[c] = IF cmd[c]._refcount = 1 THEN "none" ELSE @]
        /\ op' = [op EXCEPT ![t] = "release"]
        /\ IF cmd[c]._refcount - 1 = 0
           THEN /\ pc' = [pc EXCEPT ![t] = "release_clear_data"]
                /\ loc' = [loc EXCEPT ![t].item = c]
                /\ UNCHANGED ret
           ELSE Return(t, cmd[c]._refcount - 1)
        /\ UNCHANGED <<ringVars, semVars, fifoVars, harness, hist, pool, payload>>

\* ff_cmd_pool_return
ff_cmd_pool_return(c) ==
    /\ cmd' = [cmd EXCEPT ![c] = [Calloc EXCEPT !._refcount = cmd[c]._refcount]]
    /\ pool' = [pool EXCEPT !.free_list = Pushed(@, c), !.free_count = @ + 1]

CmdReleaseStep(t) ==
    /\ op[t] = "release"
    /\ CASE pc[t] = "release_clear_data" ->
                /\ cmd' = DataCleared(loc[t].item)
                /\ payload' = DataReleased(loc[t].item)
                /\ Goto(t, "release_pool_return")
                /\ UNCHANGED <<ringVars, semVars, fifoVars, op, ret, loc, harness, hist,
                               pool, usage>>
         [] pc[t] = "release_pool_return" ->
                /\ ff_cmd_pool_return(loc[t].item)
                /\ Return(t, 0)
                /\ UNCHANGED <<ringVars, semVars, fifoVars, op, harness, hist,
                               payload, usage>>
         [] OTHER -> FALSE

cmd_release(t) == CmdReleaseCall(t) \/ CmdReleaseStep(t)

(***************************************************************************)
(* FFCmdFifo: a waitable FIFO of FFCmd*.  ff_cmd_fifo_write,               *)
(* ff_cmd_fifo_preempt and ff_cmd_fifo_read pass the call on to the FIFO;  *)
(* the caller's reference to the command goes with the pointer: to the     *)
(* FIFO when write or preempt returns SPR_OK, to the reader when read      *)
(* hands a command out.                                                    *)
(***************************************************************************)
TransferredWithRef(c) == [cmd EXCEPT ![c]._refcount = @ + 1]
Transferred(c) == cmd

Gives(t, o) == op[t] = o /\ pc[t] # "idle" /\ pc'[t] = "idle" /\ ret'[t] = SPR_OK
Takes(t) == op[t] = "read" /\ pc[t] = "read_done" /\ loc[t].item # NoElement

ff_cmd_fifo_write(t) ==
    /\ pc[t] = "idle" => \E c \in Cells : Holds(t, c)
    /\ write(t)
    /\ cmd' = IF Gives(t, "write") THEN Transferred(loc[t].item) ELSE cmd
    /\ usage' = IF Gives(t, "write")
                THEN [usage EXCEPT !.held[t][loc[t].item] = @ - 1,
                                   !.owner[loc[t].item] = "none"]
                ELSE usage
    /\ UNCHANGED <<pool, payload>>

ff_cmd_fifo_preempt(t) ==
    /\ pc[t] = "idle" => \E c \in Cells : Holds(t, c)
    /\ preempt(t)
    /\ cmd' = IF Gives(t, "preempt") THEN Transferred(loc[t].item) ELSE cmd
    /\ usage' = IF Gives(t, "preempt")
                THEN [usage EXCEPT !.held[t][loc[t].item] = @ - 1,
                                   !.owner[loc[t].item] = "none"]
                ELSE usage
    /\ UNCHANGED <<pool, payload>>

ff_cmd_fifo_read(t) ==
    /\ read(t)
    /\ cmd' = IF Takes(t) THEN Transferred(loc[t].item) ELSE cmd
    /\ usage' = IF Takes(t)
                THEN [usage EXCEPT !.held[t][loc[t].item] = @ + 1,
                                   !.owner[loc[t].item] = t]
                ELSE usage
    /\ UNCHANGED <<pool, payload>>

ff_cmd_fifo_set_flow_enabled(t) == setFlowEnabled(t) /\ UNCHANGED poolVars
ff_cmd_fifo_try_read(t) == tryWaitForReadData(t) /\ UNCHANGED poolVars

(***************************************************************************)
(* ~FFCmdFifo, followed by ~circular_fifo.  A FIFO is destroyed by one     *)
(* thread when no call on it is in progress, and is not used afterwards,   *)
(* so each call the destructor makes runs alone, start to finish.          *)
(***************************************************************************)
Destroying == \E t \in Threads : op[t] = "destroy"
Destroyed == \E t \in Threads : pc[t] = "destroyed"

\* default_semaphore_impl::Reset: while(!TryWait()) {}
Drained(sem) == 0

\* setFlowEnabled(false), run alone
FlowDisabledAlone ==
    IF flowEnabled = 0
      THEN UNCHANGED <<flowEnabled, writeSem, readSem>>
      ELSE /\ flowEnabled' = 0
           /\ writeSem' = IF UnstickWrite(storedCount) THEN Drained(Post(writeSem))
                          ELSE writeSem
           /\ readSem' = IF UnstickRead(storedCount) THEN Drained(Post(readSem))
                         ELSE readSem

\* the loop condition of the drain: tryWaitForReadData() == 0
DrainPermit == ~readSemPresent \/ CanWait(readSem)

\* read(element), run alone: pop, _signalWrite, _hasBeenRead = true
PoppedAlone == IF RingHead = RingTail THEN NoElement ELSE array[RingHead]
ReadAlone ==
    /\ readSem' = IF readSemPresent THEN Take(readSem) ELSE readSem
    /\ IF RingHead = RingTail
         THEN UNCHANGED <<head, nahead, count>>
         ELSE /\ count' = count - 1
              /\ IF mode = LOCKLESS
                   THEN head' = increment(head) /\ UNCHANGED nahead
                   ELSE nahead' = increment(nahead) /\ UNCHANGED head
    /\ writeSem' = Post(writeSem)
    /\ hasBeenRead' = TRUE
    /\ UNCHANGED <<mode, capacity, array, tail, natail, readSemPresent, flowEnabled>>

\* ~circular_fifo: while(pop(e, NULL)) {}
PurgedAlone ==
    /\ count' = count - Len(RingContents)
    /\ IF mode = LOCKLESS
         THEN head' = tail /\ UNCHANGED nahead
         ELSE nahead' = natail /\ UNCHANGED head
    /\ UNCHANGED <<mode, capacity, array, tail, natail, fifoVars>>

DestroyCall(t) ==
    /\ \A u \in Threads : pc[u] = "idle"
    /\ ~Destroying
    /\ "destroy" \in harness.ops
    /\ harness.role[t] = "controller"
    /\ op' = [op EXCEPT ![t] = "destroy"]
    /\ FlowDisabledAlone
    /\ Goto(t, "destroy_drain")
    /\ UNCHANGED <<ringVars, readSemPresent, hasBeenRead, ret, loc, harness, hist>>

ff_cmd_fifo_destroy(t) ==
    \/ DestroyCall(t) /\ UNCHANGED poolVars
    \/ /\ op[t] = "destroy"
       /\ CASE pc[t] = "destroy_drain" ->
                 \* while (fifo->tryWaitForReadData() == 0) { fifo->read(cmd);
                 IF DrainPermit
                   THEN /\ ReadAlone
                        /\ loc' = [loc EXCEPT ![t].item = PoppedAlone]
                        /\ Goto(t, IF PoppedAlone # NoElement THEN "destroy_release"
                                   ELSE "destroy_drain")
                        /\ UNCHANGED <<op, ret, harness, hist, poolVars>>
                   ELSE /\ Goto(t, "destroy_purge")
                        /\ UNCHANGED <<ringVars, fifoVars, op, ret, loc, harness, hist,
                                       poolVars>>
            [] pc[t] = "destroy_release" ->
                 \* if (cmd) FF_CMD_RELEASE(cmd): __sync_sub_and_fetch
                 /\ cmd' = [cmd EXCEPT ![loc[t].item]._refcount = @ - 1]
                 /\ Goto(t, IF cmd[loc[t].item]._refcount - 1 = 0
                            THEN "destroy_clear_data" ELSE "destroy_drain")
                 /\ UNCHANGED <<ringVars, fifoVars, op, ret, loc, harness, hist,
                                pool, payload, usage>>
            [] pc[t] = "destroy_clear_data" ->
                 /\ cmd' = DataCleared(loc[t].item)
                 /\ payload' = DataReleased(loc[t].item)
                 /\ Goto(t, "destroy_pool_return")
                 /\ UNCHANGED <<ringVars, fifoVars, op, ret, loc, harness, hist,
                                pool, usage>>
            [] pc[t] = "destroy_pool_return" ->
                 /\ ff_cmd_pool_return(loc[t].item)
                 /\ Goto(t, "destroy_drain")
                 /\ UNCHANGED <<ringVars, fifoVars, op, ret, loc, harness, hist,
                                payload, usage>>
            [] pc[t] = "destroy_purge" ->
                 /\ PurgedAlone
                 /\ Goto(t, "destroyed")
                 /\ UNCHANGED <<op, ret, loc, harness, hist, poolVars>>
            [] OTHER -> FALSE

(***************************************************************************)
(* FrameFifo and PacketFifo: a waitable FIFO of frame (packet) pointers.   *)
(* write and preempt queue a clone of the caller's frame; usage.clones is  *)
(* the set of clones that exist and have not been handed to a reader.      *)
(***************************************************************************)
\* write / preempt: av_frame_clone before the call of the FIFO, av_frame_free
\* after it when the result is not FF_FIFO_OK
Cloned(t, o) ==
    IF pc[t] = "idle"
      THEN IF pc'[t] = "idle" THEN usage.clones ELSE usage.clones \cup {loc'[t].item}
      ELSE IF pc'[t] = "idle" /\ ret'[t] # SPR_OK
             THEN usage.clones \ {loc[t].item}
             ELSE usage.clones

ff_frame_fifo_write(t) ==
    /\ write(t)
    /\ usage' = [usage EXCEPT !.clones = Cloned(t, "write")]
    /\ UNCHANGED <<pool, cmd, payload>>

ff_frame_fifo_preempt(t) ==
    /\ preempt(t)
    /\ usage' = [usage EXCEPT !.clones = Cloned(t, "preempt")]
    /\ UNCHANGED <<pool, cmd, payload>>

\* read: the clone now belongs to the caller
ff_frame_fifo_read(t) ==
    /\ read(t)
    /\ usage' = IF Takes(t) THEN [usage EXCEPT !.clones = @ \ {loc[t].item}] ELSE usage
    /\ UNCHANGED <<pool, cmd, payload>>

ff_frame_fifo_try_read(t) == tryWaitForReadData(t) /\ UNCHANGED poolVars
ff_frame_fifo_set_flow_enabled(t) == setFlowEnabled(t) /\ UNCHANGED poolVars

\* ~FrameFifo, followed by ~circular_fifo
ff_frame_fifo_destroy(t) ==
    \/ DestroyCall(t) /\ UNCHANGED poolVars
    \/ /\ op[t] = "destroy"
       /\ CASE pc[t] = "destroy_drain" ->
                 \* while (tryWaitForReadData() == 0) { read(frame);
                 \*     if (frame) av_frame_free(&frame); }
                 IF DrainPermit
                   THEN /\ ReadAlone
                        /\ usage' = [usage EXCEPT !.clones = @ \ {PoppedAlone}]
                        /\ UNCHANGED <<pc, op, ret, loc, harness, hist, pool, cmd, payload>>
                   ELSE /\ Goto(t, "destroy_purge")
                        /\ UNCHANGED <<ringVars, fifoVars, op, ret, loc, harness, hist,
                                       poolVars>>
            [] pc[t] = "destroy_purge" ->
                 /\ PurgedAlone
                 /\ Goto(t, "destroyed")
                 /\ UNCHANGED <<op, ret, loc, harness, hist, poolVars>>
            [] OTHER -> FALSE

(***************************************************************************)
(* The state after construction.                                           *)
(***************************************************************************)
NoHistory ==
    [offered |-> [t \in Threads |-> 0],
     reads |-> 0, toggles |-> 0,
     delivered |-> <<>>,
     calledAt |-> [t \in Threads |-> 0],
     flowAt |-> [t \in Threads |-> 0],
     highCalls |-> 0, lowCalls |-> 0, newHeads |-> 0,
     headChanged |-> [t \in Threads |-> FALSE]]

\* circular_fifo(fifoSize, mode) and sproqet_generic_waitable_fifo(maxPackets, ...)
Constructed(maxPackets, m, readSemaphore) ==
    /\ mode = m
    /\ capacity = maxPackets + 1
    /\ array = [i \in 0..maxPackets |-> NoElement]
    /\ tail = 0 /\ head = 0 /\ natail = 0 /\ nahead = 0 /\ count = 0
    /\ readSemPresent = readSemaphore
    /\ writeSem = maxPackets
    /\ readSem = 0
    /\ flowEnabled = 0
    /\ hasBeenRead = FALSE
    /\ pc = [t \in Threads |-> "idle"]
    /\ op = [t \in Threads |-> "none"]
    /\ ret = [t \in Threads |-> 0]
    /\ loc = [t \in Threads |-> NoLocals]
    /\ hist = NoHistory

Roles(producers, consumers, controllers, anys) ==
    [t \in Threads |-> IF t \in producers THEN "producer"
                       ELSE IF t \in consumers THEN "consumer"
                       ELSE IF t \in controllers THEN "controller"
                       ELSE IF t \in anys THEN "any" ELSE "none"]

(***************************************************************************)
(* Spec: one producer, one consumer and one thread switching the flow.     *)
(* Producer and consumer follow the pairing rule: the producer writes or   *)
(* preempts after waitForWriteSpace returned SPR_OK, the consumer reads    *)
(* after waitForReadData returned 0.                                       *)
(***************************************************************************)
Init ==
    /\ \E m \in {LOCKLESS, BLOCKING} : Constructed(MaxPackets, m, TRUE)
    /\ NoPool
    /\ harness = [role |-> Roles({"P1"}, {"C1"}, {"K"}, {}),
                  paired |-> TRUE,
                  ops |-> {"write", "preempt", "waitForWriteSpace", "read",
                           "waitForReadData", "setFlowEnabled"},
                  items |-> MaxItems, reads |-> MaxReads, toggles |-> MaxToggles, calls |-> 0,
                      marks |-> NoMarks, headMonitor |-> FALSE]

Next ==
    /\ UNCHANGED poolVars
    /\ \E t \in Threads :
        \/ write(t)
        \/ preempt(t)
        \/ read(t)
        \/ waitForWriteSpace(t)
        \/ waitForReadData(t)
        \/ setFlowEnabled(t)

Spec == Init /\ [][Next]_vars

(***************************************************************************)
(* SeqSpec: a single thread calling every operation, in any order.         *)
(***************************************************************************)
SeqInit ==
    /\ \E m \in {LOCKLESS, BLOCKING} : Constructed(MaxPackets, m, TRUE)
    /\ NoPool
    /\ harness = [role |-> Roles({}, {}, {}, {"T"}),
                  paired |-> FALSE,
                  ops |-> ProducerOps \cup ConsumerOps \cup ControllerOps,
                  items |-> MaxItems,
                  reads |-> MaxReads,
                  toggles |-> MaxToggles, calls |-> 0,
                      marks |-> NoMarks, headMonitor |-> FALSE]

SeqNext ==
    /\ UNCHANGED poolVars
    /\ \E t \in Threads :
        \/ write(t)
        \/ preempt(t)
        \/ read(t)
        \/ waitForWriteSpace(t)
        \/ tryWaitForWriteData(t)
        \/ waitForWriteSpaceTimed(t)
        \/ waitForReadData(t)
        \/ tryWaitForReadData(t)
        \/ setFlowEnabled(t)

SeqSpec == SeqInit /\ [][SeqNext]_vars

(***************************************************************************)
(* RingSpec: a single thread enables the flow and then calls write,        *)
(* preempt and read in any order, long enough for the indices to wrap.     *)
(***************************************************************************)
RingInit ==
    /\ \E m \in {LOCKLESS, BLOCKING} : \E n \in 1..(MaxPackets + 1) : Constructed(n, m, TRUE)
    /\ NoPool
    /\ harness = [role |-> Roles({}, {}, {}, {"T"}),
                  paired |-> FALSE,
                  ops |-> {"write", "preempt", "read", "setFlowEnabled"},
                  items |-> MaxPackets + 2,
                  reads |-> MaxPackets + 1,
                  toggles |-> 1, calls |-> 0,
                      marks |-> NoMarks, headMonitor |-> FALSE]

RingNext ==
    /\ UNCHANGED poolVars
    /\ \E t \in Threads :
        \/ write(t)
        \/ preempt(t)
        \/ read(t)
        \/ setFlowEnabled(t)

RingSpec == RingInit /\ [][RingNext]_vars

(***************************************************************************)
(* PairedSpec: flow is enabled once; one producer does                     *)
(* waitForWriteSpace -> write and one consumer waitForReadData -> read.    *)
(***************************************************************************)
PairedInit ==
    /\ \E m \in {LOCKLESS, BLOCKING} : \E n \in 1..MaxPackets : Constructed(n, m, TRUE)
    /\ NoPool
    /\ harness = [role |-> Roles({"P1"}, {"C1"}, {"K"}, {}),
                  paired |-> TRUE,
                  ops |-> {"write", "waitForWriteSpace", "read", "waitForReadData",
                           "setFlowEnabled"},
                  items |-> MaxPackets + MaxItems,
                  reads |-> MaxPackets + MaxItems,
                  toggles |-> 1, calls |-> 0,
                      marks |-> NoMarks, headMonitor |-> FALSE]

PairedNext ==
    /\ UNCHANGED poolVars
    /\ \E t \in Threads :
        \/ write(t)
        \/ read(t)
        \/ waitForWriteSpace(t)
        \/ waitForReadData(t)
        \/ setFlowEnabled(t)

PairedSpec == PairedInit /\ [][PairedNext]_vars

(***************************************************************************)
(* ManySpec: the pairing rule with the flow switched on once and never     *)
(* off, no preempt: two producers and two consumers on a BLOCKING FIFO,    *)
(* one producer and one consumer on a LOCKLESS FIFO.                       *)
(***************************************************************************)
ManyInit ==
    \E m \in {LOCKLESS, BLOCKING} : \E n \in 1..MaxPackets :
        /\ Constructed(n, m, TRUE)
        /\ NoPool
        /\ harness = [role |-> IF m = BLOCKING
                                 THEN Roles({"P1", "P2"}, {"C1", "C2"}, {"K"}, {})
                                 ELSE Roles({"P1"}, {"C1"}, {"K"}, {}),
                      paired |-> TRUE,
                      ops |-> {"write", "waitForWriteSpace", "read", "waitForReadData",
                               "setFlowEnabled"},
                      items |-> MaxItems,
                      reads |-> 2 * MaxItems,
                      toggles |-> 1, calls |-> 0,
                      marks |-> NoMarks, headMonitor |-> FALSE]

ManyNext ==
    /\ UNCHANGED poolVars
    /\ \E t \in Threads :
        \/ write(t)
        \/ read(t)
        \/ waitForWriteSpace(t)
        \/ waitForReadData(t)
        \/ setFlowEnabled(t)

ManySpec == ManyInit /\ [][ManyNext]_vars

(***************************************************************************)
(* Scheduling: a thread that is inside an operation and can take its next  *)
(* step eventually takes it.  A thread parked on a semaphore cannot take a *)
(* step while the semaphore has no permit.  Nothing obliges a thread to    *)
(* call an operation.                                                      *)
(***************************************************************************)
Proceeds(t) ==
    /\ UNCHANGED poolVars
    /\ \/ WriteStep(t)
       \/ ReadStep(t)
       \/ WaitForReadDataStep(t)
       \/ WaitForWriteSpaceStep(t)
       \/ SetFlowEnabledStep(t)

Scheduled == \A t \in Threads : WF_vars(Proceeds(t))

(***************************************************************************)
(* ReadWakeSpec: one consumer following the pairing rule and one thread    *)
(* switching the flow; nothing is ever written, the ring stays empty.      *)
(***************************************************************************)
ReadWakeInit ==
    /\ \E m \in {LOCKLESS, BLOCKING} : \E n \in 1..MaxPackets : Constructed(n, m, TRUE)
    /\ NoPool
    /\ harness = [role |-> Roles({}, {"C1"}, {"K"}, {}),
                  paired |-> TRUE,
                  ops |-> {"read", "waitForReadData", "setFlowEnabled"},
                  items |-> 0,
                  reads |-> MaxReads,
                  toggles |-> MaxToggles, calls |-> 0,
                      marks |-> NoMarks, headMonitor |-> FALSE]

ReadWakeNext ==
    /\ UNCHANGED poolVars
    /\ \E t \in Threads :
        \/ read(t)
        \/ waitForReadData(t)
        \/ setFlowEnabled(t)

ReadWakeSpec == ReadWakeInit /\ [][ReadWakeNext]_vars /\ Scheduled

(***************************************************************************)
(* WriteWakeSpec: two producers following the pairing rule on a BLOCKING   *)
(* FIFO and one thread switching the flow; nothing is ever read.           *)
(***************************************************************************)
WriteWakeInit ==
    /\ \E n \in 1..MaxPackets : Constructed(n, BLOCKING, TRUE)
    /\ NoPool
    /\ harness = [role |-> Roles({"P1", "P2"}, {}, {"K"}, {}),
                  paired |-> TRUE,
                  ops |-> {"write", "waitForWriteSpace", "setFlowEnabled"},
                  items |-> MaxItems,
                  reads |-> 0,
                  toggles |-> MaxToggles, calls |-> 0,
                      marks |-> NoMarks, headMonitor |-> FALSE]

WriteWakeNext ==
    /\ UNCHANGED poolVars
    /\ \E t \in Threads :
        \/ write(t)
        \/ waitForWriteSpace(t)
        \/ setFlowEnabled(t)

WriteWakeSpec == WriteWakeInit /\ [][WriteWakeNext]_vars /\ Scheduled

(***************************************************************************)
(* TransferSpec: a LOCKLESS FIFO smaller than the number of elements; once *)
(* the flow is on, a producer thread runs (waitForWriteSpace; write) and a *)
(* consumer thread runs (waitForReadData; read), each as many times as     *)
(* there are elements.  Every thread keeps running its loop.               *)
(***************************************************************************)
TransferInit ==
    /\ \E n \in 1..MaxPackets : Constructed(n, LOCKLESS, TRUE)
    /\ NoPool
    /\ harness = [role |-> Roles({"P1"}, {"C1"}, {"K"}, {}),
                  paired |-> TRUE,
                  ops |-> {"write", "waitForWriteSpace", "read", "waitForReadData",
                           "setFlowEnabled"},
                  items |-> MaxPackets + 1,
                  reads |-> MaxPackets + 1,
                  toggles |-> 1, calls |-> 0,
                      marks |-> NoMarks, headMonitor |-> FALSE]

\* thread t is inside an operation, or has iterations of its loop left
Looping(t) ==
    /\ flowEnabled = 1
    /\ \/ pc[t] # "idle"
       \/ harness.role[t] = "producer" /\ hist.offered[t] < harness.items
       \/ harness.role[t] = "consumer" /\ hist.reads < harness.reads

TransferStep(t) ==
    /\ UNCHANGED poolVars
    /\ \/ setFlowEnabled(t)
       \/ Looping(t) /\ (waitForWriteSpace(t) \/ write(t))
       \/ Looping(t) /\ (waitForReadData(t) \/ read(t))

TransferNext == \E t \in Threads : TransferStep(t)

TransferSpec ==
    TransferInit /\ [][TransferNext]_vars /\ \A t \in Threads : WF_vars(TransferStep(t))

(***************************************************************************)
(* ContendSpec: two producers and two consumers on a BLOCKING FIFO calling *)
(* write, preempt and read in any order once the flow is on, with no waits *)
(* in between; in half of the behaviours nobody calls preempt.             *)
(***************************************************************************)
ContendInit ==
    \E n \in 1..MaxPackets : \E withPreempt \in BOOLEAN :
        /\ Constructed(n, BLOCKING, TRUE)
        /\ NoPool
        /\ harness = [role |-> Roles({"P1", "P2"}, {"C1", "C2"}, {"K"}, {}),
                      paired |-> FALSE,
                      ops |-> {"write", "read", "setFlowEnabled"}
                                \cup (IF withPreempt THEN {"preempt"} ELSE {}),
                      items |-> MaxItems,
                      reads |-> MaxItems,
                      toggles |-> 1, calls |-> 0,
                      marks |-> NoMarks, headMonitor |-> FALSE]

ContendNext ==
    /\ UNCHANGED poolVars
    /\ \E t \in Threads :
        \/ setFlowEnabled(t)
        \/ flowEnabled = 1 /\ write(t)
        \/ flowEnabled = 1 /\ preempt(t)
        \/ flowEnabled = 1 /\ read(t)

ContendSpec == ContendInit /\ [][ContendNext]_vars

(***************************************************************************)
(* circular_fifo called by one thread: push, preempt and pop as functions  *)
(* of the ring r (its array, indices and count) in mode m.  Each gives the *)
(* ring after the call and what the call let its caller see: the result,   *)
(* the element popped, stored_count after the call and the callbacks made. *)
(***************************************************************************)
MaxRingCalls == 5

NewRing ==
    [array |-> [i \in 0..(capacity - 1) |-> NoElement],
     tail |-> 0, head |-> 0, natail |-> 0, nahead |-> 0, count |-> 0]

NoCallback == [ok |-> FALSE, item |-> NoElement, stored |-> 0,
               high |-> FALSE, low |-> FALSE, newHead |-> FALSE]

Refused(r) == [ring |-> r, out |-> [NoCallback EXCEPT !.stored = r.count]]

RingPush(m, r, item) ==
    IF m = LOCKLESS
      THEN LET current_tail == r.tail
               next_tail == increment(current_tail)
               f == r.count
           IN IF HasRoom(next_tail, r.head)
                THEN [ring |-> [r EXCEPT !.array[current_tail] = item,
                                         !.tail = next_tail, !.count = f + 1],
                      out |-> [NoCallback EXCEPT !.ok = TRUE, !.stored = f + 1,
                                                 !.high = HighMarkReached(f),
                                                 !.newHead = NewHeadOnPushIn(m, f, FALSE)]]
                ELSE Refused(r)
      ELSE LET newHead == r.natail = r.nahead
               current_tail == r.natail
               next_tail == increment(current_tail)
               f == r.count
           IN IF HasRoom(next_tail, r.nahead)
                THEN [ring |-> [r EXCEPT !.array[current_tail] = item,
                                         !.natail = next_tail, !.count = f + 1],
                      out |-> [NoCallback EXCEPT !.ok = TRUE, !.stored = f + 1,
                                                 !.high = HighMarkReached(f),
                                                 !.newHead = NewHeadOnPushIn(m, f, newHead)]]
                ELSE Refused(r)

RingPreempt(m, r, item) ==
    IF m = LOCKLESS
      THEN LET current_head == r.head
               next_head == decrement(current_head)
           IN IF HasRoom(next_head, r.tail)
                THEN [ring |-> [r EXCEPT !.array[next_head] = item,
                                         !.head = next_head, !.count = @ + 1],
                      out |-> [NoCallback EXCEPT !.ok = TRUE, !.stored = r.count + 1,
                                                 !.newHead = NewHeadOnPreempt]]
                ELSE Refused(r)
      ELSE LET current_head == r.nahead
               next_head == decrement(current_head)
           IN IF HasRoom(next_head, r.natail)
                THEN [ring |-> [r EXCEPT !.array[next_head] = item,
                                         !.nahead = next_head, !.count = @ + 1],
                      out |-> [NoCallback EXCEPT !.ok = TRUE, !.stored = r.count + 1,
                                                 !.newHead = NewHeadOnPreempt]]
                ELSE Refused(r)

RingPop(m, r) ==
    IF m = LOCKLESS
      THEN LET current_head == r.head
               f == r.count
           IN IF current_head = r.tail
                THEN Refused(r)
                ELSE [ring |-> [r EXCEPT !.head = increment(current_head), !.count = f - 1],
                      out |-> [ok |-> TRUE, item |-> r.array[PopSlot(current_head)],
                               stored |-> f - 1, high |-> FALSE,
                               low |-> LowMarkReachedIn(m, f),
                               newHead |-> NewHeadOnPopIn(m, f)]]
      ELSE LET current_head == r.nahead
               f == r.count
           IN IF current_head = r.natail
                THEN Refused(r)
                ELSE [ring |-> [r EXCEPT !.nahead = increment(current_head), !.count = f - 1],
                      out |-> [ok |-> TRUE, item |-> r.array[PopSlot(current_head)],
                               stored |-> f - 1, high |-> FALSE,
                               low |-> LowMarkReachedIn(m, f),
                               newHead |-> NewHeadOnPopIn(m, f)]]

(***************************************************************************)
(* TwinSpec: one thread makes the same calls of push, preempt and pop on a *)
(* LOCKLESS ring and on a BLOCKING ring of the same capacity, with the     *)
(* same watermarks, handlers and head monitor.  hist holds the two rings,  *)
(* what the last call showed on each, and the number of calls made; the    *)
(* waitable FIFO is not used.                                              *)
(***************************************************************************)
Modes == {LOCKLESS, BLOCKING}

TwinInit ==
    /\ mode = LOCKLESS
    /\ capacity \in 2..(MaxPackets + 1)
    /\ array = [i \in 0..(capacity - 1) |-> NoElement]
    /\ tail = 0 /\ head = 0 /\ natail = 0 /\ nahead = 0 /\ count = 0
    /\ readSemPresent = TRUE /\ writeSem = capacity - 1 /\ readSem = 0
    /\ flowEnabled = 0 /\ hasBeenRead = FALSE
    /\ pc = [t \in Threads |-> "idle"]
    /\ op = [t \in Threads |-> "none"]
    /\ ret = [t \in Threads |-> 0]
    /\ loc = [t \in Threads |-> NoLocals]
    /\ hist = [rings |-> [m \in Modes |-> NewRing],
               outs |-> [m \in Modes |-> NoCallback],
               call |-> "none",
               calls |-> 0]
    /\ NoPool
    /\ \E high, low \in -1..MaxPackets : \E highHandler, lowHandler, monitor \in BOOLEAN :
         harness = [role |-> Roles({}, {}, {}, {"T"}),
                    paired |-> FALSE,
                    ops |-> {"push", "preempt", "pop"},
                    items |-> MaxRingCalls, reads |-> MaxRingCalls,
                    toggles |-> 0, calls |-> MaxRingCalls,
                    marks |-> [high |-> high, highHandler |-> highHandler,
                               low |-> low, lowHandler |-> lowHandler],
                    headMonitor |-> monitor]

TwinCalled(call, after) ==
    /\ hist.calls < harness.calls
    /\ hist' = [rings |-> [m \in Modes |-> after[m].ring],
                outs |-> [m \in Modes |-> after[m].out],
                call |-> call,
                calls |-> hist.calls + 1]
    /\ UNCHANGED <<ringVars, fifoVars, threadVars, harness, poolVars>>

TwinPush == TwinCalled("push", [m \in Modes |-> RingPush(m, hist.rings[m], hist.calls + 1)])
TwinPreempt ==
    TwinCalled("preempt", [m \in Modes |-> RingPreempt(m, hist.rings[m], hist.calls + 1)])
TwinPop == TwinCalled("pop", [m \in Modes |-> RingPop(m, hist.rings[m])])

TwinNext == TwinPush \/ TwinPreempt \/ TwinPop

TwinSpec == TwinInit /\ [][TwinNext]_vars

(***************************************************************************)
(* LocklessSpec: one producer thread and one consumer thread on a LOCKLESS *)
(* FIFO, calling write and read in any order once the flow is on, with no  *)
(* waits in between; in half of the behaviours the producer also calls     *)
(* preempt.                                                                *)
(***************************************************************************)
LocklessInit ==
    \E n \in 1..MaxPackets : \E withPreempt \in BOOLEAN :
        /\ Constructed(n, LOCKLESS, TRUE)
        /\ NoPool
        /\ harness = [role |-> Roles({"P1"}, {"C1"}, {"K"}, {}),
                      paired |-> FALSE,
                      ops |-> {"write", "read", "setFlowEnabled"}
                                \cup (IF withPreempt THEN {"preempt"} ELSE {}),
                      items |-> MaxPackets + 2,
                      reads |-> MaxPackets + 2,
                      toggles |-> 1, calls |-> 0,
                      marks |-> NoMarks, headMonitor |-> FALSE]

LocklessNext ==
    /\ UNCHANGED poolVars
    /\ \E t \in Threads :
        \/ setFlowEnabled(t)
        \/ flowEnabled = 1 /\ write(t)
        \/ flowEnabled = 1 /\ preempt(t)
        \/ flowEnabled = 1 /\ read(t)

LocklessSpec == LocklessInit /\ [][LocklessNext]_vars

(***************************************************************************)
(* PoolSpec: two threads share one pool, created with any initial_size and *)
(* max_size; the FIFO is not used.  Each thread acquires commands, takes   *)
(* references for itself or for the other thread, and releases the         *)
(* references it holds.                                                    *)
(***************************************************************************)
PoolInit ==
    /\ Constructed(1, BLOCKING, TRUE)
    /\ \E initial_size \in 0..MaxCells : \E max_size \in 0..MaxCells :
       \E provided \in 0..initial_size : PoolCreated(provided, max_size)
    /\ harness = [role |-> Roles({}, {}, {}, {"P1", "C1"}),
                  paired |-> FALSE,
                  ops |-> {"acquire", "add_ref", "release"},
                  items |-> 0, reads |-> 0, toggles |-> 0, calls |-> MaxCalls,
                      marks |-> NoMarks, headMonitor |-> FALSE]

PoolNext ==
    \E t \in Threads :
        \/ ff_cmd_pool_acquire(t)
        \/ cmd_addref(t)
        \/ cmd_release(t)

PoolSpec == PoolInit /\ [][PoolNext]_vars

(***************************************************************************)
(* CmdSpec: two threads share a pool of at most two commands; the owner of *)
(* a command attaches and detaches payloads, initialises the command and   *)
(* writes its fields.                                                      *)
(***************************************************************************)
CmdInit ==
    /\ Constructed(1, BLOCKING, TRUE)
    /\ \E max_size \in 1..2 : \E initial_size \in 0..max_size :
       PoolCreated(initial_size, max_size)
    /\ harness = [role |-> Roles({}, {}, {}, {"P1", "C1"}),
                  paired |-> FALSE,
                  ops |-> PoolOps,
                  items |-> 0, reads |-> 0, toggles |-> 0, calls |-> MaxCalls,
                      marks |-> NoMarks, headMonitor |-> FALSE]

CmdNext ==
    \E t \in Threads :
        \/ ff_cmd_pool_acquire(t)
        \/ cmd_addref(t)
        \/ cmd_release(t)
        \/ ff_cmd_set_data(t)
        \/ ff_cmd_clear_data(t)
        \/ ff_cmd_init(t)
        \/ FillFields(t)

CmdSpec == CmdInit /\ [][CmdNext]_vars

(***************************************************************************)
(* CmdFifoSpec: a producer acquires commands from a pool of at most two,   *)
(* attaches payloads and writes the commands to a command FIFO of one      *)
(* slot, or preempts with them on the BLOCKING FIFO; a consumer reads      *)
(* commands and releases them; a third thread switches the flow.  The      *)
(* producer releases commands too, those a write has refused among them.   *)
(* Nobody waits: writes meet a full ring and a closed flow, reads an empty *)
(* ring.                                                                   *)
(***************************************************************************)
CmdFifoInit ==
    \E m \in {LOCKLESS, BLOCKING} :
        /\ Constructed(1, m, TRUE)
        /\ PoolCreated(2, 2)
        /\ harness = [role |-> Roles({"P1"}, {"C1"}, {"K"}, {}),
                      paired |-> FALSE,
                      ops |-> {"acquire", "set_data", "release", "write", "read",
                               "setFlowEnabled"}
                              \cup (IF m = BLOCKING THEN {"preempt"} ELSE {}),
                      items |-> MaxItems, reads |-> 1, toggles |-> 1, calls |-> 1,
                      marks |-> NoMarks, headMonitor |-> FALSE]

CmdFifoNext ==
    \E t \in Threads :
        \/ harness.role[t] = "producer" /\ ff_cmd_pool_acquire(t)
        \/ harness.role[t] = "producer" /\ ff_cmd_set_data(t)
        \/ harness.role[t] \in {"producer", "consumer"} /\ cmd_release(t)
        \/ ff_cmd_fifo_write(t)
        \/ ff_cmd_fifo_preempt(t)
        \/ ff_cmd_fifo_read(t)
        \/ ff_cmd_fifo_set_flow_enabled(t)

CmdFifoSpec == CmdFifoInit /\ [][CmdFifoNext]_vars

(***************************************************************************)
(* A command FIFO that is used and then destroyed: a producer acquires     *)
(* commands and writes them, a consumer polls for a command and reads, a   *)
(* controller toggles the flow and, when no call is in progress, destroys  *)
(* the FIFO.                                                               *)
(***************************************************************************)
DestroyInit ==
    \E m \in {LOCKLESS, BLOCKING} :
        /\ Constructed(1, m, TRUE)
        /\ PoolCreated(2, 2)
        /\ harness = [role |-> Roles({"P1"}, {"C1"}, {"K"}, {}),
                      paired |-> FALSE,
                      ops |-> {"acquire", "release", "write", "read",
                               "tryWaitForReadData", "setFlowEnabled", "destroy"},
                      items |-> MaxItems, reads |-> MaxReads, toggles |-> 1, calls |-> 0,
                      marks |-> NoMarks, headMonitor |-> FALSE]

DestroyNext ==
    \E t \in Threads :
        \/ ~Destroying /\ harness.role[t] = "producer" /\ ff_cmd_pool_acquire(t)
        \/ ~Destroying /\ harness.role[t] \in {"producer", "consumer"} /\ cmd_release(t)
        \/ ~Destroying /\ ff_cmd_fifo_write(t)
        \/ ~Destroying /\ ff_cmd_fifo_try_read(t)
        \/ ~Destroying /\ ff_cmd_fifo_read(t)
        \/ ~Destroying /\ ff_cmd_fifo_set_flow_enabled(t)
        \/ ff_cmd_fifo_destroy(t)

DestroySpec == DestroyInit /\ [][DestroyNext]_vars

(***************************************************************************)
(* MarkSpec: a single thread sets the watermark handlers, enables the flow *)
(* and then calls write, preempt and read in any order.                    *)
(***************************************************************************)
MarkInit ==
    /\ \E m \in {LOCKLESS, BLOCKING} : Constructed(MaxPackets, m, TRUE)
    /\ NoPool
    /\ harness = [role |-> Roles({}, {}, {}, {"T"}),
                  paired |-> FALSE,
                  ops |-> {"setWaterMarkHandler", "write", "preempt", "read",
                           "setFlowEnabled"},
                  items |-> MaxPackets + 1,
                  reads |-> MaxPackets + 1,
                  toggles |-> 1, calls |-> 0,
                  marks |-> NoMarks, headMonitor |-> FALSE]

MarkNext ==
    /\ UNCHANGED poolVars
    /\ \E t \in Threads :
        \/ setWaterMarkHandler(t)
        \/ write(t)
        \/ preempt(t)
        \/ read(t)
        \/ setFlowEnabled(t)

MarkSpec == MarkInit /\ [][MarkNext]_vars

(***************************************************************************)
(* HeadSpec: a FIFO constructed with a head monitor; one producer, one     *)
(* consumer and one thread switching the flow, following the pairing rule. *)
(* The BLOCKING producer also preempts.                                    *)
(***************************************************************************)
HeadInit ==
    \E m \in {LOCKLESS, BLOCKING} :
        /\ Constructed(MaxPackets, m, TRUE)
        /\ NoPool
        /\ harness = [role |-> Roles({"P1"}, {"C1"}, {"K"}, {}),
                      paired |-> TRUE,
                      ops |-> {"write", "waitForWriteSpace", "read", "waitForReadData",
                               "setFlowEnabled"}
                              \cup (IF m = BLOCKING THEN {"preempt"} ELSE {}),
                      items |-> MaxPackets + 1,
                      reads |-> MaxPackets + 1,
                      toggles |-> 1, calls |-> 0,
                      marks |-> NoMarks, headMonitor |-> TRUE]

HeadNext ==
    /\ UNCHANGED poolVars
    /\ \E t \in Threads :
        \/ write(t)
        \/ preempt(t)
        \/ read(t)
        \/ waitForWriteSpace(t)
        \/ waitForReadData(t)
        \/ setFlowEnabled(t)

HeadSpec == HeadInit /\ [][HeadNext]_vars

(***************************************************************************)
(* WaitSpec: a FIFO of one packet, built with or without a read semaphore; *)
(* a producer, a consumer and a thread switching the flow call the waits,  *)
(* write and read in any order.                                            *)
(***************************************************************************)
WaitInit ==
    /\ \E m \in {LOCKLESS, BLOCKING}, readSemaphore \in BOOLEAN :
           Constructed(1, m, readSemaphore)
    /\ NoPool
    /\ harness = [role |-> Roles({"P1"}, {"C1"}, {"K"}, {}),
                  paired |-> FALSE,
                  ops |-> {"write", "read", "setFlowEnabled"} \cup WaitWriteOps
                              \cup WaitReadOps,
                  items |-> 1, reads |-> 1, toggles |-> 1, calls |-> 0,
                  marks |-> NoMarks, headMonitor |-> FALSE]

WaitNext ==
    /\ UNCHANGED poolVars
    /\ \E t \in Threads :
        \/ write(t)
        \/ read(t)
        \/ waitForWriteSpace(t)
        \/ tryWaitForWriteData(t)
        \/ waitForWriteSpaceTimed(t)
        \/ waitForReadData(t)
        \/ tryWaitForReadData(t)
        \/ waitForReadDataTimed(t)
        \/ setFlowEnabled(t)

WaitSpec == WaitInit /\ [][WaitNext]_vars

(***************************************************************************)
(* MediaSpec: a frame FIFO that is used and then destroyed: a producer     *)
(* writes (and, in BLOCKING mode, preempts) frames, a consumer polls and   *)
(* reads, a controller toggles the flow and destroys the FIFO when no call *)
(* is in progress.                                                         *)
(***************************************************************************)
MediaInit ==
    \E m \in {LOCKLESS, BLOCKING} :
        /\ Constructed(MaxPackets, m, TRUE)
        /\ NoPool
        /\ harness = [role |-> Roles({"P1"}, {"C1"}, {"K"}, {}),
                      paired |-> FALSE,
                      ops |-> {"write", "read", "tryWaitForReadData", "setFlowEnabled",
                               "destroy"}
                              \cup (IF m = BLOCKING THEN {"preempt"} ELSE {}),
                      items |-> MaxItems, reads |-> MaxReads, toggles |-> MaxToggles,
                      calls |-> 0,
                      marks |-> NoMarks, headMonitor |-> FALSE]

MediaNext ==
    \E t \in Threads :
        \/ ~Destroying /\ ff_frame_fifo_write(t)
        \/ ~Destroying /\ ff_frame_fifo_preempt(t)
        \/ ~Destroying /\ ff_frame_fifo_try_read(t)
        \/ ~Destroying /\ ff_frame_fifo_read(t)
        \/ ~Destroying /\ ff_frame_fifo_set_flow_enabled(t)
        \/ ff_frame_fifo_destroy(t)

MediaSpec == MediaInit /\ [][MediaNext]_vars

(***************************************************************************)
(* Observations the claims are stated in.                                  *)
(***************************************************************************)
\* no thread is inside an operation
Quiescent == \A t \in Threads : pc[t] = "idle"

\* elements accepted by a write or preempt that returned SPR_OK
Accepted == hist.offered["P1"] + hist.offered["P2"] + hist.offered["T"]

\* read calls that dequeued an element
Dequeued == Cardinality({i \in 1..Len(hist.delivered) : hist.delivered[i] # NoElement})

\* thread t returns from operation o in this step
Returns(t, o) == op[t] = o /\ pc[t] # "idle" /\ pc'[t] = "idle"

\* where a write or preempt stands once the ring has accepted its element
AcceptedAt == {"push_store", "push_tail", "push_count", "preempt_store", "preempt_head",
               "preempt_count", "signalRead"}

\* thread t takes a step of operation o (its call included)
Steps(t, o) ==
    /\ op'[t] = o
    /\ <<pc[t], op[t], ret[t], loc[t]>> # <<pc'[t], op'[t], ret'[t], loc'[t]>>

(***************************************************************************)
(* C1.  One producer doing waitForWriteSpace -> write and one consumer     *)
(* doing waitForReadData -> read, flow enabled, no preempt, either mode,   *)
(* every interleaving: the elements read() returns are exactly the         *)
(* elements passed to write, in the same order; nothing is lost,           *)
(* duplicated or reordered.  The producer passes 1, 2, 3, ... in this      *)
(* order, so the elements returned so far must be 1..k, k no larger than   *)
(* the number accepted, and at rest the ring holds the rest, in order.     *)
(***************************************************************************)
C1_ReadsReturnWritesInOrder ==
    /\ Len(hist.delivered) <= hist.offered["P1"]
    /\ \A i \in 1..Len(hist.delivered) : hist.delivered[i] = i
    /\ Quiescent =>
         RingContents = [i \in 1..(hist.offered["P1"] - Len(hist.delivered)) |->
                            Len(hist.delivered) + i]

\* the producer publishes a wrapped tail while the consumer publishes a head, in
\* LOCKLESS mode, with elements already read
C1_Witness ==
    /\ mode = LOCKLESS
    /\ pc["P1"] = "push_tail" /\ loc["P1"].next < loc["P1"].current
    /\ pc["C1"] = "pop_head"
    /\ Len(hist.delivered) >= 2

(***************************************************************************)
(* C2.  BLOCKING mode: a successful preempt(x) on a non-full FIFO puts x   *)
(* in front of the queued elements, which keep their order, and every read *)
(* takes the front element: after push A, B, C and preempt Z the reads     *)
(* yield Z, A, B, C.  This holds wherever head stands, head = 0 included.  *)
(***************************************************************************)
C2_PreemptedIsPoppedNext ==
    [][\A t \in Threads :
          /\ (mode = BLOCKING /\ op[t] = "preempt" /\ pc[t] = "preempt"
                /\ pc'[t] = "signalRead")
               => RingContents' = <<loc[t].item>> \o RingContents
          /\ (mode = BLOCKING /\ pc[t] = "idle" /\ pc'[t] = "signalWrite"
                /\ RingContents # <<>>)
               => /\ hist'.delivered = Append(hist.delivered, Head(RingContents))
                  /\ RingContents' = Tail(RingContents)]_vars

\* push 1, 2; preempt 3 with head = 0 (head wraps to the last slot); reads gave 3, 1, 2
C2_Witness ==
    /\ mode = BLOCKING
    /\ hist.delivered = <<3, 1, 2>>
    /\ nahead = 2
    /\ capacity = 4

(***************************************************************************)
(* C3.  stored_count(), whenever any thread reads it, is in [0, capacity]  *)
(* (capacity being the maxPackets of the constructor), in both modes, also *)
(* while the LOCKLESS producer and consumer run push and pop concurrently. *)
(***************************************************************************)
C3_StoredCountInRange == storedCount >= 0 /\ storedCount <= capacity - 1

(***************************************************************************)
(* C4.  Whenever no FIFO operation is in progress, stored_count() equals   *)
(* the writes that returned OK plus the preempts that returned OK minus    *)
(* the reads that dequeued an element, and equals the number of elements   *)
(* held between head and tail.                                             *)
(***************************************************************************)
C4_StoredCountIsBalance ==
    Quiescent => /\ storedCount = Accepted - Dequeued
                 /\ storedCount = Len(RingContents)

(***************************************************************************)
(* C5.  write, preempt, waitForWriteSpace, waitForWriteSpaceTimed and      *)
(* tryWaitForWriteData, called while flow is disabled (a freshly           *)
(* constructed FIFO included), return SPR_FLOWDISABLED at once and leave   *)
(* the ring, stored_count, write_sem and read_sem unchanged.               *)
(***************************************************************************)
GatedOps == {"write", "preempt"} \cup WaitWriteOps

C5_DisabledFlowRefuses ==
    /\ [](\A t \in Threads :
            (pc[t] = "idle" /\ op[t] \in GatedOps /\ hist.flowAt[t] = 0)
               => ret[t] = SPR_FLOWDISABLED)
    /\ [][\A t \in Threads : \A o \in GatedOps :
            (pc[t] = "idle" /\ op'[t] = o /\ hist'.flowAt[t] = 0
               /\ hist'.flowAt[t] = flowEnabled)
               => /\ pc'[t] = "idle"
                  /\ UNCHANGED <<ringState, semState>>]_vars

\* a write refused on a disabled FIFO that holds elements and write permits
C5_Witness ==
    \E t \in Threads :
        /\ pc[t] = "idle" /\ op[t] = "write" /\ ret[t] = SPR_FLOWDISABLED
        /\ hist.flowAt[t] = 0 /\ flowEnabled = 0
        /\ count > 0 /\ writeSem > 0 /\ readSem > 0

(***************************************************************************)
(* C6.  Once setFlowEnabled(false) has returned, every later call of       *)
(* waitForReadData, write, preempt and waitForWriteSpace returns           *)
(* SPR_FLOWDISABLED (as long as flow is not enabled again); waitForReadData*)
(* in particular never returns 0 while flow is disabled.                   *)
(***************************************************************************)
C6_ClosedFifoRefuses ==
    \A t \in Threads :
        (/\ pc[t] = "idle"
         /\ op[t] \in {"write", "preempt", "waitForWriteSpace", "waitForReadData"}
         /\ hist.calledAt[t] > 0
         /\ hist.calledAt[t] = hist.toggles)
           => ret[t] = SPR_FLOWDISABLED

(***************************************************************************)
(* C7.  Flow enabled, ring empty, thread A parked in waitForReadData:      *)
(* when thread B calls setFlowEnabled(false), A eventually returns, with   *)
(* SPR_FLOWDISABLED, and has dequeued nothing.                             *)
(***************************************************************************)
ParkedReaderAtDisable ==
    /\ op["C1"] = "waitForReadData" /\ pc["C1"] = "readSem_wait"
    /\ op["K"] = "setFlowEnabled" /\ pc["K"] = "flow_store_0"
    /\ flowEnabled = 1 /\ count = 0 /\ RingContents = <<>> /\ readSem = 0

C7_ParkedReaderIsReleased ==
    ParkedReaderAtDisable
        ~> (/\ pc["C1"] = "idle" /\ op["C1"] = "waitForReadData"
            /\ ret["C1"] = SPR_FLOWDISABLED
            /\ Dequeued = 0)

(***************************************************************************)
(* C8.  BLOCKING mode, several producers: every thread parked in           *)
(* waitForWriteSpace when setFlowEnabled(false) is called eventually wakes *)
(* and returns SPR_FLOWDISABLED, with no read, whatever stored_count is    *)
(* and however many threads are parked.                                    *)
(***************************************************************************)
ParkedWriterAtDisable(t) ==
    /\ mode = BLOCKING
    /\ op[t] = "waitForWriteSpace" /\ pc[t] = "writeSem_wait"
    /\ op["K"] = "setFlowEnabled" /\ pc["K"] = "flow_store_0"
    /\ flowEnabled = 1

C8_ParkedWritersAreReleased ==
    \A t \in {"P1", "P2"} :
        ParkedWriterAtDisable(t)
            ~> (/\ pc[t] = "idle" /\ op[t] = "waitForWriteSpace"
                /\ ret[t] = SPR_FLOWDISABLED)

(***************************************************************************)
(* C9.  No write succeeds while flow is disabled: once a call of           *)
(* setFlowEnabled(false) has returned, and until flow is enabled again, no *)
(* element is added to the ring and no write or preempt returns SPR_OK,    *)
(* not even one that was in progress when the flag was cleared.            *)
(***************************************************************************)
C9_NoWriteWhileClosed ==
    [][Closed => /\ Len(RingContents') <= Len(RingContents)
                 /\ count' <= count
                 /\ \A t \in Threads : \A o \in {"write", "preempt"} :
                        Returns(t, o) => ret'[t] # SPR_OK]_vars

(***************************************************************************)
(* C10.  A FIFO of capacity N with flow enabled accepts exactly N writes   *)
(* with no read between them: a write or preempt on a ring holding fewer   *)
(* than N elements returns SPR_OK, and on a ring holding N it returns      *)
(* SPR_FIFOFULL, without waiting, leaving the ring, stored_count and the   *)
(* semaphores as they were.  After one read a further write succeeds.      *)
(***************************************************************************)
C10_FullRingRefuses ==
    /\ [](\A t \in Threads :
            /\ Running(t, "write") => ENABLED WriteStep(t)
            /\ Running(t, "preempt") => ENABLED PreemptStep(t))
    /\ [][\A t \in Threads : \A o \in {"write", "preempt"} :
            /\ (Steps(t, o) /\ flowEnabled = 1 /\ count = capacity - 1
                  /\ pc[t] \notin AcceptedAt)
                 => /\ UNCHANGED <<ringState, semState>>
                    /\ pc'[t] \notin AcceptedAt
                    /\ pc'[t] = "idle" => ret'[t] = SPR_FIFOFULL
            /\ Returns(t, o)
                 => /\ ret'[t] \in {SPR_OK, SPR_FIFOFULL}
                    /\ ret'[t] = SPR_FIFOFULL => count = capacity - 1]_vars

\* N writes were accepted, the next was refused, one element was read and one more
\* write was accepted
C10_Witness ==
    /\ capacity = MaxPackets + 1
    /\ hist.offered["T"] = MaxPackets + 1
    /\ hist.delivered = <<1>>
    /\ count = MaxPackets
    /\ op["T"] = "write" /\ pc["T"] = "idle" /\ ret["T"] = SPR_OK

(***************************************************************************)
(* C11.  Under the pairing rule, flow kept enabled, no preempt: a write    *)
(* issued after a waitForWriteSpace that returned SPR_OK never returns     *)
(* SPR_FIFOFULL (it returns SPR_OK), and a read issued after a             *)
(* waitForReadData that returned 0 always dequeues an element.             *)
(***************************************************************************)
C11_PermitMeansRoomAndData ==
    /\ \A t \in Threads :
          (pc[t] = "idle" /\ op[t] = "write") => ret[t] = SPR_OK
    /\ \A i \in 1..Len(hist.delivered) : hist.delivered[i] # NoElement

\* two producers and two consumers have passed all their elements through a
\* one-slot BLOCKING FIFO
C11_Witness ==
    /\ mode = BLOCKING /\ capacity = 2
    /\ hist.offered["P1"] = MaxItems /\ hist.offered["P2"] = MaxItems
    /\ Len(hist.delivered) = 2 * MaxItems
    /\ op["C1"] = "read" /\ op["C2"] = "read" /\ Quiescent

(***************************************************************************)
(* C12.  LOCKLESS mode, capacity smaller than the number K of elements, a  *)
(* producer doing K times (waitForWriteSpace; write) and a consumer doing  *)
(* K times (waitForReadData; read), flow enabled, fair scheduling: both    *)
(* terminate, and at the end stored_count() is 0 and has_been_read() is    *)
(* true.                                                                   *)
(***************************************************************************)
TransferDone ==
    /\ Quiescent
    /\ hist.offered["P1"] = harness.items
    /\ Dequeued = harness.reads /\ hist.reads = harness.reads
    /\ op["P1"] = "write" /\ ret["P1"] = SPR_OK
    /\ op["C1"] = "read"
    /\ storedCount = 0
    /\ hasBeenRead

C12_TransferTerminates == <>[]TransferDone

\* the transfer of MaxPackets + 1 elements through a one-slot FIFO is over
C12_Witness == TransferDone /\ capacity = 2 /\ Len(hist.delivered) = MaxPackets + 1

(***************************************************************************)
(* C13.  BLOCKING mode, several producers and consumers calling write,     *)
(* preempt and read concurrently: every element accepted by a write or     *)
(* preempt that returned SPR_OK is returned by exactly one read (none      *)
(* lost, none delivered twice), and without preempt the elements of one    *)
(* producer are dequeued in that producer's write order.                   *)
(***************************************************************************)
\* the elements the reads have returned so far, and their positions
DeliveredAt == {i \in 1..Len(hist.delivered) : hist.delivered[i] # NoElement}
DeliveredSet == {hist.delivered[i] : i \in DeliveredAt}
QueuedSet == {RingContents[i] : i \in 1..Len(RingContents)}
AcceptedSet ==
    UNION {{ItemBase(t) + k : k \in 1..hist.offered[t]} : t \in {"P1", "P2"}}
SameProducer(x, y) == (x <= MaxItems) = (y <= MaxItems)

C13_EachAcceptedOnce ==
    /\ \A i, j \in DeliveredAt : i # j => hist.delivered[i] # hist.delivered[j]
    /\ Quiescent =>
          /\ DeliveredSet \cup QueuedSet = AcceptedSet
          /\ DeliveredSet \cap QueuedSet = {}
          /\ Cardinality(QueuedSet) = Len(RingContents)
    /\ "preempt" \notin harness.ops =>
          \A i, j \in DeliveredAt :
              (i < j /\ SameProducer(hist.delivered[i], hist.delivered[j]))
                 => hist.delivered[i] < hist.delivered[j]

\* with preempts in play, every read of the two consumers returned an element,
\* and an element of P1 overtook an earlier one of P1
C13_Witness ==
    /\ "preempt" \in harness.ops /\ Quiescent
    /\ Cardinality(DeliveredSet) = harness.reads
    /\ \E i, j \in DeliveredAt : i < j /\ hist.delivered[i] = 2 /\ hist.delivered[j] = 1
    /\ op["C1"] = "read" /\ op["C2"] = "read"

(***************************************************************************)
(* The command pool.                                                       *)
(***************************************************************************)
\* commands acquired and not yet finally released
Live == {c \in Allocated : cmd[c]._refcount > 0}

\* C14: with max_size = M > 0, whatever initial_size was, the number of live
\* commands never exceeds M and total_count never exceeds M.
C14_PoolStaysWithinMax ==
    pool.max_size > 0 =>
        /\ Cardinality(Live) <= pool.max_size
        /\ ff_cmd_pool_total_count <= pool.max_size

\* the free list is empty and max_size is reached
Exhausted == pool.free_list = <<>> /\ pool.max_size # 0 /\ pool.total_count >= pool.max_size

\* an acquire that returns null leaves the pool alone; one that returns a cell
\* pops the head of a non-empty free list, and allocates only on an empty one
AcquireEffect(t, null) ==
    /\ ret'[t] = NoCmd <=> null
    /\ null => pool' = pool
    /\ ~null /\ pool.free_list # <<>> =>
           /\ ret'[t] = Head(pool.free_list)
           /\ pool' = [pool EXCEPT !.free_list = Tail(@), !.free_count = @ - 1]
    /\ ~null /\ pool.free_list = <<>> =>
           /\ ret'[t] \in Cells \ Allocated
           /\ pool' = [pool EXCEPT !.total_count = @ + 1]

\* C15 as stated: acquire returns null exactly when the free list is empty,
\* max_size != 0 and total_count >= max_size, leaving the counts unchanged;
\* otherwise it returns a cell, popped from a non-empty free list
\* (free_count - 1) or allocated on an empty one (total_count + 1).
C15_NullExactlyWhenExhausted ==
    [][\A t \in Threads : ff_cmd_pool_acquire(t) => AcquireEffect(t, Exhausted)]_vars

\* C15, amended: acquire returns null exactly when the free list is empty and
\* either max_size is reached or calloc returns null, leaving the counts
\* unchanged; otherwise it returns a cell, popped from a non-empty free list
\* (free_count - 1) or allocated on an empty one (total_count + 1).
C15_NullWhenExhaustedOrNoMemory ==
    [][\A t \in Threads : \A callocFails \in BOOLEAN :
          AcquireStep(t, callocFails) =>
              AcquireEffect(t, Exhausted \/ (pool.free_list = <<>> /\ callocFails))]_vars

\* an acquire returned null on an empty free list below max_size, after
\* another acquire had allocated a cell
C15_Witness ==
    /\ \E t \in Threads : op[t] = "acquire" /\ ret[t] = NoCmd
    /\ pool.free_list = <<>>
    /\ pool.total_count > 0 /\ pool.total_count < pool.max_size
    /\ pool.total_count < MaxCells
    /\ Quiescent

\* every reference taken has been given back, and the releases have returned
AllReleased == Quiescent /\ \A t \in Threads : \A c \in Cells : usage.held[t][c] = 0
OnFreeList(c) == {i \in 1..Len(pool.free_list) : pool.free_list[i] = c}

\* C16: once every acquired command has received 1 + its number of add_refs
\* releases, free_count = total_count, in_use_count = 0 and every cell is on
\* the free list exactly once.
C16_AllReleasedAllFree ==
    AllReleased =>
        /\ ff_cmd_pool_free_count = ff_cmd_pool_total_count
        /\ ff_cmd_pool_in_use_count = 0
        /\ \A c \in Allocated : Cardinality(OnFreeList(c)) = 1
        /\ Len(pool.free_list) = pool.total_count

\* both threads have released, after MaxCalls add_refs on MaxCells commands,
\* and the cells are back in another order than ff_cmd_pool_create left them
C16_Witness ==
    /\ AllReleased
    /\ op["P1"] = "release" /\ op["C1"] = "release"
    /\ usage.calls = MaxCalls
    /\ pool.total_count = MaxCells
    /\ pool.free_list = <<1, 3, 2>>

\* C17: a command returned by acquire, freshly allocated or recycled after any
\* earlier use, has refcount 1, type NONE, null payload and payload adapter,
\* and zero pts, dts, flags, stream_index and user_data.
C17_AcquiredIsClean ==
    [][\A t \in Threads :
          ff_cmd_pool_acquire(t) /\ ret'[t] # NoCmd =>
              /\ cmd'[ret'[t]]._refcount = 1
              /\ cmd'[ret'[t]].type = FF_CMD_NONE
              /\ cmd'[ret'[t]].data = NoData
              /\ cmd'[ret'[t]].data_ref = NoAdapter
              /\ cmd'[ret'[t]].pts = 0 /\ cmd'[ret'[t]].dts = 0
              /\ cmd'[ret'[t]].flags = 0 /\ cmd'[ret'[t]].stream_index = 0
              /\ cmd'[ret'[t]].user_data = 0]_vars

\* the only cell of a pool has carried a counted payload, was released, and
\* acquire has handed it out again
C17_Witness ==
    /\ pool.max_size = 1 /\ pool.total_count = 1
    /\ payload[1].AddRef = 1 /\ payload[1].Release = 1
    /\ usage.calls = MaxCalls
    /\ op["C1"] = "release"
    /\ op["P1"] = "acquire" /\ ret["P1"] = 1
    /\ usage.held["P1"][1] = 1 /\ cmd[1]._refcount = 1

\* the one command whose refcount this step takes down by 1, no other changed
Decrements(c) ==
    /\ cmd'[c]._refcount = cmd[c]._refcount - 1
    /\ \A d \in Cells \ {c} : cmd'[d] = cmd[d]

\* C18: a release takes the refcount down by 1; one that leaves it above 0
\* returns at once and changes neither free_count nor the free list; the one
\* that takes it to 0 goes on to put the cell at the head of the free list,
\* free_count + 1, cleared to type NONE; and acquire takes the head of the free
\* list, so the next acquire returns that same cell.
C18_ReturnsOnLastRelease ==
    [][\A t \in Threads :
          /\ CmdReleaseCall(t) =>
                 /\ pool' = pool
                 /\ \E c \in Cells :
                        /\ Decrements(c)
                        /\ pc'[t] = "idle" <=> cmd'[c]._refcount > 0
                        /\ pc'[t] # "idle" => loc'[t].item = c
          /\ CmdReleaseStep(t) /\ pc[t] = "release_clear_data" => pool' = pool
          /\ CmdReleaseStep(t) /\ pc[t] = "release_pool_return" =>
                 /\ pool'.free_count = pool.free_count + 1
                 /\ pool'.free_list = <<loc[t].item>> \o pool.free_list
                 /\ cmd'[loc[t].item].type = FF_CMD_NONE
                 /\ cmd'[loc[t].item]._refcount = 0
          /\ ff_cmd_pool_acquire(t) /\ pool.free_list # <<>> =>
                 /\ ret'[t] = Head(pool.free_list)
                 /\ cmd'[ret'[t]].type = FF_CMD_NONE]_vars

\* pool of 2 after two add_refs: cell 1 went back on the free list above
\* cell 2, the other thread made a last release, and acquire has returned
\* cell 1 again
C18_Witness ==
    /\ pool.max_size = 2 /\ pool.total_count = 2
    /\ pool.free_list = <<2>> /\ pool.free_count = 1
    /\ usage.calls = 2
    /\ op["C1"] = "release" /\ ret["C1"] = 0 /\ pc["C1"] = "idle"
    /\ op["P1"] = "acquire" /\ ret["P1"] = 1
    /\ usage.held["P1"][1] = 1 /\ cmd[1]._refcount = 1

\* the commands that carry payload p with a payload adapter
Carrying(p) == {c \in Cells : cmd[c].data = p /\ cmd[c].data_ref # NoAdapter}

\* C19: the adapter's AddRef calls on a payload exceed its Release calls by
\* one for each command the payload is attached to; a command that has had
\* its final release carries nothing, so once the commands are released
\* their payloads have had as many Release as AddRef calls.
C19_PayloadRefsBalance ==
    /\ \A p \in Payloads :
           payload[p].AddRef - payload[p].Release = Cardinality(Carrying(p))
    /\ \A i \in 1..Len(pool.free_list) :
           /\ cmd[pool.free_list[i]].data = NoData
           /\ cmd[pool.free_list[i]].data_ref = NoAdapter
    /\ AllReleased => \A p \in Payloads : payload[p].AddRef = payload[p].Release

\* the one command of the pool has carried payload 1 and payload 2, each
\* with the adapter, and both threads have released
C19_Witness ==
    /\ AllReleased
    /\ pool.total_count = 1
    /\ payload[1].AddRef = 1 /\ payload[1].Release = 1
    /\ payload[2].AddRef = 1 /\ payload[2].Release = 1
    /\ op["P1"] = "release" /\ op["C1"] = "release"

(***************************************************************************)
(* The command FIFO.                                                       *)
(***************************************************************************)
\* thread t takes a step of write, preempt or read on the command FIFO
FifoStep(t) == ff_cmd_fifo_write(t) \/ ff_cmd_fifo_preempt(t) \/ ff_cmd_fifo_read(t)

\* this step, write or preempt by t returns FLOW_DISABLED or FIFO_FULL
Refuses(t) ==
    /\ ff_cmd_fifo_write(t) \/ ff_cmd_fifo_preempt(t)
    /\ pc'[t] = "idle"
    /\ ret'[t] \in {SPR_FLOWDISABLED, SPR_FIFOFULL}

\* the command t passed to the call that takes this step
Passed(t) == IF pc[t] = "idle" THEN NextItem(t) ELSE loc[t].item

\* C20: no step of write, preempt or read on a command FIFO changes the
\* refcount of a command or the AddRef and Release counts of a payload,
\* whether the call returns OK, FLOW_DISABLED or FIFO_FULL; a write or
\* preempt that is refused has stored nothing in the ring, and its caller
\* still holds its reference to the command and owns it.
C20_FifoLeavesRefcounts ==
    [][\A t \in Threads :
          /\ FifoStep(t) =>
                 /\ \A c \in Cells : cmd'[c]._refcount = cmd[c]._refcount
                 /\ payload' = payload
                 /\ pool' = pool
          /\ Refuses(t) =>
                 /\ pc[t] \notin AcceptedAt
                 /\ ringState' = ringState
                 /\ usage' = usage
                 /\ Owns(t, Passed(t))
                 /\ cmd'[Passed(t)]._refcount >= 1]_vars

\* the consumer has read a command off the FIFO, the ring is full again,
\* and the producer's write of a command that carries a counted payload has
\* returned FIFO_FULL: the producer holds the command's one reference
C20_Witness ==
    /\ op["P1"] = "write" /\ pc["P1"] = "idle" /\ ret["P1"] = SPR_FIFOFULL
    /\ Len(RingContents) = 1
    /\ \E i \in 1..Len(hist.delivered) : hist.delivered[i] # NoElement
    /\ \E c \in Cells :
           /\ usage.held["P1"][c] = 1 /\ cmd[c]._refcount = 1
           /\ cmd[c].data = 1 /\ cmd[c].data_ref = CountingAdapter
           /\ RingContents # <<c>>
    /\ payload[1].AddRef = 1 /\ payload[1].Release = 0

\* references to command c held by the threads
RECURSIVE HeldAmong(_, _)
HeldAmong(ts, c) ==
    IF ts = {} THEN 0
    ELSE LET t == CHOOSE u \in ts : TRUE
         IN usage.held[t][c] + HeldAmong(ts \ {t}, c)
HeldBy(c) == HeldAmong(Threads, c)

\* C21: once a command FIFO has been destroyed, every command that was
\* queued in it has been released exactly once: the only references left
\* on any command are the ones the threads still hold.
C21_DestroyReleasesQueued ==
    Destroyed => \A c \in Allocated : cmd[c]._refcount = HeldBy(c)

\* thread t runs the step of a push (of a pop) that changes the count
Pushes(t) == op'[t] = "write" /\ pc'[t] # pc[t] /\ count' = count + 1
Pops(t) == op'[t] = "read" /\ pc'[t] # pc[t] /\ count' = count - 1

\* C22: with a high-watermark handler set at threshold high, a push calls
\* the handler if and only if the count after that push equals high + 1.
C22_HighMarkOnCrossing ==
    [][\A t \in Threads :
          Pushes(t) => ((hist'.highCalls = hist.highCalls + 1)
                           <=> (highWaterMarkHandler /\ count' = highWaterMark + 1))]_vars

\* C23: with a low-watermark handler set at threshold low, a pop calls the
\* handler if and only if the count after that pop equals low - 1.
C23_LowMarkOnCrossing ==
    [][\A t \in Threads :
          Pops(t) => ((hist'.lowCalls = hist.lowCalls + 1)
                         <=> (lowWaterMarkHandler /\ count' = lowWaterMark - 1))]_vars

\* the step of thread t that changes the count changes the element at the
\* head of the ring: a push into an empty ring, a preempt, a pop that leaves
\* the ring non-empty
HeadChanges(t) ==
    IF mode = BLOCKING
      THEN CASE op'[t] = "write" -> nahead = natail
             [] op'[t] = "preempt" -> TRUE
             [] op'[t] = "read" -> increment(nahead) # natail
             [] OTHER -> FALSE
      ELSE hist.headChanged[t]

\* C24: with a head monitor installed, a push notifies it if and only if
\* the ring was empty before that push, every successful preempt notifies
\* it, and a pop notifies it if and only if the ring is non-empty after
\* that pop; nothing else notifies it.
C24_NewHeadOnHeadChange ==
    [][/\ \A t \in Threads :
            (pc'[t] # pc[t] /\ count' # count)
                => ((hist'.newHeads = hist.newHeads + 1) <=> HeadChanges(t))
       /\ hist'.newHeads # hist.newHeads => count' # count]_vars

\* C25: has_been_read() is false until a read has dequeued an element: a
\* read that finds the FIFO empty does not set it.
C25_ReadLatchNeedsDequeue == hasBeenRead => Dequeued >= 1

\* C26: on a FIFO built without a read semaphore, wait_for_read_data,
\* wait_for_read_data_timed and try_wait_for_read_data all return
\* FLOW_DISABLED, never success.
C26_NoReadSemaphoreNoSuccess ==
    ~readSemPresent =>
        \A t \in Threads :
            (pc[t] = "idle" /\ op[t] \in WaitReadOps) => ret[t] = SPR_FLOWDISABLED

\* the step in which a timed wait of thread t (msecs >= 1) returns because its
\* deadline expired: no permit on its semaphore, and the flow enabled
ReadDeadline(t) ==
    /\ waitForReadDataTimed(t)
    /\ pc[t] = "idle" /\ pc'[t] = "idle"
    /\ readSemPresent /\ ~CanWait(readSem) /\ flowEnabled # 0
WriteDeadline(t) ==
    /\ WaitForWriteSpaceTimedBounded(t)
    /\ pc[t] = "flow_after" /\ loc[t].retv # 0 /\ flowEnabled # 0

\* C27: a timed wait whose deadline expires while the flow is enabled and
\* no permit is available returns TIMEOUT (-1) and consumes no permit.
C27_TimedWaitTimesOut ==
    [][\A t \in Threads :
          (ReadDeadline(t) \/ WriteDeadline(t))
              => (ret'[t] = FF_FIFO_TIMEOUT /\ semState' = semState)]_vars

\* C28: in a frame or packet FIFO the clones the FIFO owns are exactly the
\* queued ones: at every quiescent point their number equals stored_count,
\* and once the FIFO has been destroyed none is left.
C28_ClonesAreTheQueued ==
    /\ Quiescent => Cardinality(usage.clones) = storedCount
    /\ Destroyed => usage.clones = {}

\* C29: set_flow_enabled(b) called when the flow flag already equals b
\* returns without changing the flag, the semaphores or the ring.
C29_SameFlowIsNoOp ==
    [][\A t \in Threads : \A enabled \in BOOLEAN :
          (SetFlowEnabledCall(t, enabled) /\ flowEnabled = (IF enabled THEN 1 ELSE 0))
              => /\ pc'[t] = "idle"
                 /\ flowEnabled' = flowEnabled
                 /\ semState' = semState
                 /\ ringState' = ringState]_vars

\* the controller's last call found the flow enabled and left it enabled,
\* with an element in the ring
C29_Witness ==
    /\ pc["K"] = "idle" /\ op["K"] = "setFlowEnabled"
    /\ hist.flowAt["K"] = 1 /\ flowEnabled = 1
    /\ storedCount > 0

\* thread t is inside the disabling branch of set_flow_enabled
Disabling(t) ==
    /\ op[t] = "setFlowEnabled"
    /\ pc[t] \in {"flow_store_0", "flow_count", "unstick_write", "writeSem_reset",
                   "unstick_read", "readSem_reset"}
    /\ pc'[t] # pc[t] \/ semState' # semState \/ flowEnabled' # flowEnabled

\* C30: set_flow_enabled(false), run with no other operation in progress,
\* leaves no extra permit: at its return read_sem is 0 if the ring is
\* empty and write_sem is 0 if the ring is full, and no step of it changes
\* a semaphore whose condition does not apply.
C30_PostThenResetLeavesNoPermit ==
    [][\A t \in Threads :
          (Disabling(t) /\ \A u \in Threads \ {t} : pc[u] = "idle")
              => /\ Len(RingContents) # capacity - 1 => writeSem' = writeSem
                 /\ Len(RingContents) # 0 => readSem' = readSem
                 /\ pc'[t] = "idle" =>
                        /\ Len(RingContents) = capacity - 1 => writeSem' = 0
                        /\ Len(RingContents) = 0 => readSem' = 0]_vars

\* the flow has been disabled on a full ring, and the write semaphore is 0
C30_Witness ==
    /\ pc["T"] = "idle" /\ op["T"] = "setFlowEnabled"
    /\ flowEnabled = 0 /\ hist.toggles = 2
    /\ Len(RingContents) = capacity - 1
    /\ writeSem = 0

\* C31: on the release that takes a command's refcount to 0 the payload is
\* released through its adapter, and only then is the cell put on the free
\* list: the cell is not on the free list while it carries its payload, and
\* a cell on the free list has null payload and null adapter.
C31_PayloadReleasedBeforeReturn ==
    [][/\ \A t \in Threads :
            /\ (CmdReleaseStep(t) /\ pc[t] = "release_clear_data") =>
                   /\ pool' = pool
                   /\ OnFreeList(loc[t].item) = {}
                   /\ \A p \in Payloads :
                          payload'[p].Release =
                              payload[p].Release
                                + (IF cmd[loc[t].item].data = p
                                      /\ cmd[loc[t].item].data_ref # NoAdapter
                                   THEN 1 ELSE 0)
            /\ (CmdReleaseStep(t) /\ pc[t] = "release_pool_return") =>
                   \E c \in Cells :
                       /\ c = loc[t].item
                       /\ cmd[c].data = NoData /\ cmd[c].data_ref = NoAdapter
                       /\ payload' = payload
                       /\ OnFreeList(c) = {}
                       /\ OnFreeList(c)' # {}
       /\ \A c \in Allocated :
            OnFreeList(c)' # {} =>
                cmd'[c].data = NoData /\ cmd'[c].data_ref = NoAdapter]_vars

\* a thread has released the payload of a command on its final release and
\* has not yet put the cell back; the other thread is acquiring meanwhile
C31_Witness ==
    \E t \in Threads :
        /\ op[t] = "release" /\ pc[t] = "release_pool_return"
        /\ payload[1].AddRef = 1 /\ payload[1].Release = 1
        /\ \E u \in Threads \ {t} : op[u] = "acquire" /\ ret[u] # NoCmd

\* the calls of the adapter's AddRef, over all payloads
RECURSIVE AddRefCallsOn(_, _)
AddRefCallsOn(ps, f) ==
    IF ps = {} THEN 0
    ELSE LET p == CHOOSE q \in ps : TRUE
         IN f[p].AddRef + AddRefCallsOn(ps \ {p}, f)

\* what set_data and init do to the payload the command held: one Release
\* when it was a payload with an adapter, and nothing else released
OldPayloadReleased(c) ==
    \A p \in Payloads :
        payload'[p].Release =
            payload[p].Release
              + (IF cmd[c].data = p /\ cmd[c].data_ref # NoAdapter THEN 1 ELSE 0)

\* set_data releases the old payload once and stores the new pair; init
\* releases the held payload, sets the type, keeps the refcount
SetDataAndInitEffect(t, c) ==
    /\ \A data \in {NoData} \cup Payloads : \A data_ref \in {NoAdapter, CountingAdapter} :
           SetData(t, c, data, data_ref) =>
               /\ OldPayloadReleased(c)
               /\ cmd'[c].data = data /\ cmd'[c].data_ref = data_ref
               /\ cmd'[c]._refcount = cmd[c]._refcount
    /\ \A type \in {FF_CMD_NONE, FF_CMD_FRAME} :
           InitCmd(t, c, type) =>
               /\ OldPayloadReleased(c)
               /\ \A p \in Payloads : payload'[p].AddRef = payload[p].AddRef
               /\ cmd'[c].type = type
               /\ cmd'[c].data = NoData /\ cmd'[c].data_ref = NoAdapter
               /\ cmd'[c]._refcount = cmd[c]._refcount

RECURSIVE PublishedSlots(_, _)
PublishedSlots(h, t) == IF h = t THEN {} ELSE {h} \cup PublishedSlots(increment(h), t)

\* the consumer is about to move the element out of slot s
ReadingSlot(t, s) == op[t] = "read" /\ pc[t] = "pop_take" /\ PopSlot(loc[t].current) = s

\* the producer is about to construct its element in slot s
StoringSlot(t, s) == op[t] = "write" /\ pc[t] = "push_store" /\ loc[t].current = s

C33_SlotStoredBeforeReadAndReadBeforeStored ==
    (mode = LOCKLESS /\ "preempt" \notin harness.ops) =>
        \A s \in 0..(capacity - 1) :
            /\ (\E c \in Threads : ReadingSlot(c, s)) =>
                   /\ s \in PublishedSlots(head, tail)
                   /\ array[s] # NoElement
                   /\ \A p \in Threads : ~StoringSlot(p, s)
            /\ (\E p \in Threads : StoringSlot(p, s)) =>
                   /\ s \notin PublishedSlots(head, tail)
                   /\ \A c \in Threads : ~ReadingSlot(c, s)

\* the producer stores into a slot of a wrapped ring while the consumer
\* moves an element out of the neighbouring slot
C33_Witness ==
    /\ mode = LOCKLESS /\ "preempt" \notin harness.ops
    /\ StoringSlot("P1", 0) /\ hist.offered["P1"] >= capacity
    /\ \E s \in 1..(capacity - 1) : ReadingSlot("C1", s)

(***************************************************************************)
(* C34.  LOCKLESS mode, one producer thread calling push and preempt and   *)
(* one consumer thread calling pop concurrently: every element accepted by *)
(* a successful push or preempt is popped exactly once, and after both     *)
(* threads finish stored_count equals the number of elements between head  *)
(* and tail.                                                               *)
(***************************************************************************)
C34_PreemptRacingPopLosesNothing ==
    (mode = LOCKLESS /\ "preempt" \in harness.ops) =>
        /\ \A i, j \in DeliveredAt : i # j => hist.delivered[i] # hist.delivered[j]
        /\ DeliveredSet \subseteq {ItemBase("P1") + k : k \in 1..harness.items}
        /\ Quiescent =>
              /\ DeliveredSet \cup QueuedSet = AcceptedSet
              /\ DeliveredSet \cap QueuedSet = {}
              /\ Cardinality(QueuedSet) = Len(RingContents)
              /\ storedCount = Len(RingContents)

(***************************************************************************)
(* C35.  Two threads releasing the same command concurrently, the releases *)
(* adding up to its refcount: exactly one of the calls observes the count  *)
(* reach 0, the payload is released exactly once, the cell is inserted     *)
(* into the free list exactly once and free_count is incremented exactly   *)
(* once.                                                                   *)
(***************************************************************************)
\* the threads whose release of c took the count to 0 and has not returned yet
Finishing(c) ==
    {t \in Threads : /\ op[t] = "release"
                     /\ pc[t] \in {"release_clear_data", "release_pool_return"}
                     /\ loc[t].item = c}

\* the references to c that have not been released yet
RECURSIVE HeldIn(_, _)
HeldIn(ts, c) ==
    IF ts = {} THEN 0
    ELSE LET t == CHOOSE u \in ts : TRUE
         IN usage.held[t][c] + HeldIn(ts \ {t}, c)

C35_OneReleaseReturnsTheCell ==
    /\ [](\A c \in Allocated :
            /\ cmd[c]._refcount = HeldIn(Threads, c)
            /\ Cardinality(Finishing(c)) <= 1
            /\ Finishing(c) # {} => cmd[c]._refcount = 0 /\ OnFreeList(c) = {}
            /\ Cardinality(OnFreeList(c)) <= 1)
    /\ [][\A t \in Threads :
            /\ CmdReleaseCall(t) =>
                   \E c \in Cells :
                       /\ Decrements(c)
                       /\ pool' = pool /\ payload' = payload
                       /\ (pc'[t] = "release_clear_data") <=> (HeldIn(Threads, c)' = 0)
                       /\ pc'[t] = "idle" => ret'[t] = HeldIn(Threads, c)' /\ ret'[t] > 0
            /\ (CmdReleaseStep(t) /\ pc[t] = "release_clear_data") =>
                   \E c \in Cells :
                       /\ c = loc[t].item
                       /\ pool' = pool
                       /\ \A p \in Payloads :
                              payload'[p].Release =
                                  payload[p].Release + (IF c \in Carrying(p) THEN 1 ELSE 0)
            /\ (CmdReleaseStep(t) /\ pc[t] = "release_pool_return") =>
                   \E c \in Cells :
                       /\ c = loc[t].item
                       /\ payload' = payload
                       /\ pool'.free_count = pool.free_count + 1
                       /\ Cardinality(OnFreeList(c)') = 1
                       /\ Len(pool'.free_list) = Len(pool.free_list) + 1
                       /\ pc'[t] = "idle" /\ ret'[t] = 0]_vars

\* the only command of the pool carried payload 1 and was shared by the two
\* threads: C1's release saw the count go to 1, P1's saw it reach 0, released
\* the payload and is about to return the cell
C35_Witness ==
    /\ pool.total_count = 1 /\ pool.free_list = <<>>
    /\ op["C1"] = "release" /\ pc["C1"] = "idle" /\ ret["C1"] = 1
    /\ Finishing(1) = {"P1"} /\ pc["P1"] = "release_pool_return"
    /\ payload[1].AddRef = 1 /\ payload[1].Release = 1

(***************************************************************************)
(* C36.  For every single-threaded sequence of push, preempt and pop calls *)
(* with the same watermark thresholds and head monitor, a LOCKLESS ring    *)
(* and a BLOCKING ring return the same results, pop the same elements,     *)
(* report the same stored_count after each call, and invoke the            *)
(* high-watermark, low-watermark and head-change callbacks on exactly the  *)
(* same calls.                                                             *)
(***************************************************************************)
C36_ModesAgreeOnEveryCall == hist.outs[LOCKLESS] = hist.outs[BLOCKING]

(***************************************************************************)
(* C37.  With no operation in progress, after any sequence of              *)
(* waitForWriteSpace, write, preempt, read and setFlowEnabled calls,       *)
(* write_sem <= capacity - stored_count: there are never more write        *)
(* permits than free slots, also after a preempt followed by a read and    *)
(* after a read on an empty FIFO.  The capacity is maxPackets, one less    *)
(* than the ring's number of slots.                                        *)
(***************************************************************************)
C37_WritePermitsWithinFreeSlots ==
    Quiescent => writeSem <= (capacity - 1) - storedCount

(***************************************************************************)
(* C38.  With no operation in progress and no consumer holding an unused   *)
(* read permit, read_sem equals stored_count, so that every queued element *)
(* can still be obtained through waitForReadData -> read; also after       *)
(* setFlowEnabled(false) ran concurrently with a write.                    *)
(***************************************************************************)
C38_ReadPermitsAreQueuedElements ==
    (Quiescent /\ \A t \in Threads : ~HoldsReadPermit(t)) => readSem = storedCount

(***************************************************************************)
(* C39.  In every reachable state of a pool: free_count is the number of   *)
(* cells on the free list, free_count <= total_count, in_use_count =       *)
(* total_count - free_count is the number of acquired and not finally      *)
(* released commands, no cell is on the free list twice, and no cell with  *)
(* refcount > 0 is on the free list.  A command whose last release has     *)
(* taken the count to 0 and has not yet reached ff_cmd_pool_return is not  *)
(* finally released yet.                                                   *)
(***************************************************************************)
NotFinallyReleased == {c \in Allocated : cmd[c]._refcount > 0 \/ Finishing(c) # {}}

C39_PoolCountersMatchFreeList ==
    /\ ff_cmd_pool_free_count = Len(pool.free_list)
    /\ ff_cmd_pool_free_count <= ff_cmd_pool_total_count
    /\ ff_cmd_pool_in_use_count = ff_cmd_pool_total_count - ff_cmd_pool_free_count
    /\ ff_cmd_pool_in_use_count = Cardinality(NotFinallyReleased)
    /\ \A i \in 1..Len(pool.free_list) : pool.free_list[i] \in Allocated
    /\ \A c \in Allocated :
           /\ Cardinality(OnFreeList(c)) <= 1
           /\ cmd[c]._refcount > 0 => OnFreeList(c) = {}

\* three cells: one on the free list, one held with two references, and one
\* whose last release is about to return it to the pool
C39_Witness ==
    /\ pool.total_count = 3 /\ pool.free_count = 1
    /\ \E c \in Allocated : cmd[c]._refcount = 2
    /\ \E c \in Allocated : \E t \in Threads :
           Finishing(c) = {t} /\ pc[t] = "release_pool_return"

(***************************************************************************)
(* C40.  BLOCKING mode, any sequence of push, preempt and pop on a ring of *)
(* capacity N (N + 1 slots): head and tail stay in [0, N], stored_count =  *)
(* (tail - head) mod (N + 1), the ring is empty iff head = tail and full   *)
(* iff (tail + 1) mod (N + 1) = head, and a failed push, preempt or pop    *)
(* changes neither index nor the count.                                    *)
(***************************************************************************)
\* thread t's push or preempt comes back refused, or its pop finds nothing
FailsOnRing(t) ==
    \/ /\ op[t] \in {"write", "preempt"} /\ pc[t] \in {"push", "preempt"}
       /\ pc'[t] = "idle" /\ ret'[t] = SPR_FIFOFULL
    \/ /\ pc[t] = "idle" /\ op'[t] = "read" /\ pc'[t] # "idle"
       /\ hist'.delivered = Append(hist.delivered, NoElement)

C40_BlockingRingIndices ==
    /\ [](mode = BLOCKING =>
            /\ nahead \in 0..(capacity - 1)
            /\ natail \in 0..(capacity - 1)
            /\ storedCount = (natail - nahead) % capacity
            /\ (storedCount = 0) <=> (nahead = natail)
            /\ (storedCount = capacity - 1) <=> ((natail + 1) % capacity = nahead))
    /\ [][\A t \in Threads :
            (mode = BLOCKING /\ FailsOnRing(t)) =>
                /\ UNCHANGED <<nahead, natail, count, array>>
                /\ (op'[t] = "read") <=> (nahead = natail)
                /\ (op'[t] = "write") => (natail + 1) % capacity = nahead
                /\ (op'[t] = "preempt") => (natail + 1) % capacity = nahead]_vars

\* a full ring whose tail has wrapped behind its head has refused a push
C40_Witness ==
    /\ mode = BLOCKING /\ capacity = MaxPackets + 1
    /\ natail < nahead /\ storedCount = capacity - 1
    /\ op["T"] = "write" /\ pc["T"] = "idle" /\ ret["T"] = SPR_FIFOFULL

====
